---- MODULE Spec2Model ----
(***************************************************************************)
(* Model of the seed-agent job runner (AgentRunner, v2 API): discovery by  *)
(* polling and by push notifications, admission (dedup, capacity, budget), *)
(* swarm acceptance, the processing pipeline of a job and the persisted    *)
(* store of processed job ids.                                             *)
(*                                                                         *)
(* Every await of the source is a suspension point: the code between two   *)
(* awaits runs as one action.  A pipeline suspended at an await is a       *)
(* record in the bag `tasks`; the answer of the external call is chosen by *)
(* the action that resumes it.                                             *)
(***************************************************************************)
EXTENDS Integers, Sequences, FiniteSets, Bags, TLC

\* ------------------------------------------------------------------ bounds
MaxJobs == 3            \* job ids known to the marketplace: 1..MaxJobs
MaxTasks == 2           \* pipelines suspended at an await at the same time
MaxPolls == 2           \* poll chains (requests or timers) alive at a time
MaxList == 2            \* jobs in one answer of listJobsV2
maxConcurrentJobs == 1  \* config.maxConcurrentJobs (MAX_CONCURRENT_JOBS)

\* ------------------------------------------------------- program constants
minBudget == 50         \* config.minBudget, in cents (MIN_BUDGET "0.50")
ProcessedCap == 1000    \* markJobProcessed keeps the last 1000 ids

JobIds == 1..MaxJobs

\* ------------------------------------------------------------ the job data
\* Budgets are in cents.  A budgetPerAgent that is null (or absent) is Null.
Null == -1

\* The marketplace's jobs: a job is immutable, so its fields are a function
\* of its id.  Ids cycle through: SWARM with a sufficient share, STANDARD
\* with a sufficient budget, SWARM whose share is below the minimum although
\* its total budget is not, STANDARD below the minimum, SWARM whose share is
\* the number 0.
Job(id) ==
    CASE id % 5 = 1 -> [id |-> id, jobType |-> "SWARM",    budget |-> 200, budgetPerAgent |-> 100]
      [] id % 5 = 2 -> [id |-> id, jobType |-> "STANDARD", budget |-> 100, budgetPerAgent |-> Null]
      [] id % 5 = 3 -> [id |-> id, jobType |-> "SWARM",    budget |-> 200, budgetPerAgent |-> 25]
      [] id % 5 = 4 -> [id |-> id, jobType |-> "STANDARD", budget |-> 25,  budgetPerAgent |-> Null]
      [] OTHER      -> [id |-> id, jobType |-> "SWARM",    budget |-> 200, budgetPerAgent |-> 0]

\* JavaScript's truthiness of a `number | null`: null and 0 are falsy.
Truthy(n) == n # Null /\ n # 0

\* effectiveBudget of poll (job) and of handleWebSocketJob (event): the
\* per-agent budget of a SWARM job when it is truthy, else the total budget.
effectiveBudgetTotalOnly(job) == job.budget

effectiveBudget(job) ==
    IF job.jobType = "SWARM" /\ Truthy(job.budgetPerAgent)
    THEN job.budgetPerAgent
    ELSE job.budget

\* ---------------------------------------------------------------- messages
\* Error messages of the transport; the source classifies them with
\* String.includes, modelled by the set of messages that contain the pattern.
AcceptErrors == {"job_full", "All agent slots are taken",
                 "You have already accepted this job", "Unauthorized"}
IncludesJobFull(msg) == msg = "job_full"
IncludesAllAgentSlots(msg) == msg = "All agent slots are taken"
IncludesAlreadyAccepted(msg) == msg = "You have already accepted this job"
SubmitErrors == {"You have already submitted a response", "Internal Server Error"}
IncludesAlreadySubmitted(msg) == msg = "You have already submitted a response"

VARIABLES
    running,         \* AgentRunner.running
    pollTimer,       \* AgentRunner.pollTimer: "null", "pending" or "fired"
    leakedTimers,    \* pending timeouts whose handle pollTimer no longer holds
    pollReqs,        \* listJobsV2 requests awaited by poll()
    pusher,          \* TRUE when the job:new handler is bound (pusher # null)
    processingJobs,  \* AgentRunner.processingJobs (in-flight set)
    processedJobs,   \* AgentRunner.processedJobs, in insertion order
    jobStore,        \* persisted jobStore.processedJobs
    tasks,           \* bag of pipelines suspended at an await
    bootIds,         \* history: ids loaded by the constructor of this process
    evicted,         \* history: ids trimmed from processedJobs by this process
    gen,             \* the call of LLMClient.generate in progress
    req,             \* the call of SeedstrClient.request in progress
    search,          \* the call of webSearch in progress
    exec,            \* the call of LLMClient.executeGeneration in progress
    builder,         \* activeProjectBuilder and the generate calls that share it
    totals,          \* AgentRunner.stats.total*: the cumulative usage
    last             \* history: what the latest step did

vars == <<running, pollTimer, leakedTimers, pollReqs, pusher, processingJobs,
          processedJobs, jobStore, tasks, bootIds, evicted, gen, req, search, exec, builder, totals, last>>

\* ----------------------------------------------------------------- helpers
Range(s) == {s[i] : i \in 1..Len(s)}

\* Set.has on the insertion-ordered set.
Has(s, x) == \E i \in 1..Len(s) : s[i] = x

\* Sequences of distinct job ids, the possible bodies of a listJobsV2 answer.
RECURSIVE DistinctSeqs(_)
DistinctSeqs(S) ==
    IF S = {} THEN {<<>>}
    ELSE {<<>>} \cup UNION {{<<x>> \o s : s \in DistinctSeqs(S \ {x})} : x \in S}

\* new Set(array): first occurrences, in order.
RECURSIVE Dedup(_)
Dedup(a) ==
    IF a = <<>> THEN <<>>
    ELSE LET init == Dedup(SubSeq(a, 1, Len(a) - 1))
             x == a[Len(a)]
         IN IF x \in Range(init) THEN init ELSE Append(init, x)

SetOfArray(a) == IF Cardinality(Range(a)) = Len(a) THEN a ELSE Dedup(a)

Inc(n) == n + 1

\* stats.jobsProcessed, stats.jobsSkipped and stats.errors are only ever
\* incremented and never read by the runner: the model keeps, for each step,
\* the increments the step made to them.
ZeroStats == [jobsProcessed |-> 0, jobsSkipped |-> 0, errors |-> 0]

\* What a step did: the operation, the job id it is about (0: none), the
\* answer of the external call it resumed on, the jobs of the answer of
\* listJobsV2, the events it emitted, its increments of the counters, the
\* calls of llm.generate it started (<<job id, budget named in the prompt>>)
\* the budgetPerAgent of the acceptance it received (0: none), the
\* uploadError its pipeline had caught before ("": none), its calls of
\* cleanupProject, and the TokenUsage it built from result.usage (<<>>: none).
NoStep == [op |-> "init", id |-> 0, out |-> "", jobs |-> <<>>, events |-> <<>>,
           stats |-> ZeroStats, llm |-> <<>>, accepted |-> 0, uploadError |-> "",
           cleanups |-> 0, usage |-> <<>>]


\* ------------------------------------------------- the runner's own state
\* The fields an operation of the runner reads and writes, gathered in one
\* record so that the synchronous part of a handler is a function on it.
Cur ==
    [processing |-> processingJobs, processed |-> processedJobs,
     store |-> jobStore, stats |-> ZeroStats, tasks |-> tasks,
     evicted |-> evicted, events |-> <<>>, jobs |-> <<>>, llm |-> <<>>,
     accepted |-> 0, uploadError |-> "",
     cleanups |-> 0, usage |-> <<>>]

\* An event is <<type, job id (0 when the event names no job), detail>>.
emitEvent(R, type, id) == [R EXCEPT !.events = Append(@, <<type, id, "">>)]

emitSubmitted(R, id, hasFiles) ==
    [R EXCEPT !.events = Append(@, <<"response_submitted", id,
                                     IF hasFiles THEN "hasFiles" ELSE "noFiles">>)]

\* A suspended pipeline: the job, the await it is suspended at, the caller
\* that handles an error acceptAndProcessSwarmJob rethrows ("poll" or "ws";
\* "" once processJob runs, which rethrows nothing), useV2Submit, and the
\* uploadError the inner catch of processJob caught ("": none), and the
\* method of the client that sends the submission awaited ("": the await
\* is no submission).
Task(id, pc, src, v2) ==
    [id |-> id, pc |-> pc, src |-> src, v2 |-> v2, uploadError |-> "",
     call |-> ""]

\* (The job is submitted on v1 whatever useV2Submit is.)
submitCallV1(useV2Submit, withFiles) ==
    IF withFiles THEN "submitResponseWithFiles" ELSE "submitResponse"

\* The `if (useV2Submit)` that chooses the method of a submission.
submitCall(useV2Submit, withFiles) ==
    IF useV2Submit THEN "submitResponseV2"
    ELSE IF withFiles THEN "submitResponseWithFiles"
    ELSE "submitResponse"

\* The useV2 argument the method gives to request(): the v2 base is used.
RequestsV2(call) == call = "submitResponseV2"

Suspend(R, t) == [R EXCEPT !.tasks = @ (+) SetToBag({t})]

Resume(R, t) == [R EXCEPT !.tasks = @ (-) SetToBag({t})]

\* (A trim that keeps the first 1000 ids instead of the last.)
MarkProcessedKeepFirst(processed, jobId) ==
    LET added == IF Has(processed, jobId) THEN processed
                 ELSE Append(processed, jobId)
    IN IF Len(added) > ProcessedCap
       THEN SubSeq(added, 1, ProcessedCap)
       ELSE added

\* processedJobs.add(jobId) followed by the trim to the last 1000 ids.
MarkProcessed(processed, jobId) ==
    LET added == IF Has(processed, jobId) THEN processed
                 ELSE Append(processed, jobId)
    IN IF Len(added) > ProcessedCap
       THEN SubSeq(added, Len(added) - ProcessedCap + 1, Len(added))
       ELSE added

\* markJobProcessed: the set is updated, trimmed and written to the store.
markJobProcessed(R, jobId) ==
    LET now == MarkProcessed(R.processed, jobId)
        allKept == now = R.processed \/ now = Append(R.processed, jobId)
    IN [R EXCEPT !.processed = now,
                 !.store = now,
                 !.evicted = IF allKept /\ Has(now, jobId) THEN @
                             ELSE @ \cup ((Range(R.processed) \cup {jobId}) \ Range(now))]

\* processJob up to its first await (llm.generate): the id enters the
\* in-flight set, job_processing is emitted and generation is started with
\* a system prompt that names the effective budget of the job it was given.
processJobStart(R, id, useV2Submit) ==
    LET job == Job(id)
        R1 == [R EXCEPT !.processing = @ \cup {id}]
        R2 == emitEvent(R1, "job_processing", id)
        R3 == [R2 EXCEPT !.llm = Append(@, <<id, effectiveBudget(job)>>)]
    IN Suspend(R3, Task(id, "generate", "", useV2Submit))

\* acceptAndProcessSwarmJob up to its first await (client.acceptJob).
acceptAndProcessSwarmJobStart(R, id, src) ==
    Suspend(R, Task(id, "accept", src, FALSE))

\* processJob's finally block.
processJobFinally(R, id) ==
    markJobProcessed([R EXCEPT !.processing = @ \ {id}], id)

\* processJob's catch block.
processJobCatch(R, id, msg) ==
    IF IncludesAlreadySubmitted(msg) THEN R
    ELSE [emitEvent(R, "error", id) EXCEPT !.stats.errors = Inc(@)]

AlreadySeen(R, id) == id \in R.processing \/ Has(R.processed, id)

AtCapacity(R) == Cardinality(R.processing) >= maxConcurrentJobs

BudgetTooLow(job) == effectiveBudget(job) < minBudget

\* The test `job.jobType === "SWARM"` that routes a job to
\* acceptAndProcessSwarmJob, in poll and in handleWebSocketJob.
IsSwarmNever(job) == FALSE

IsSwarm(job) == job.jobType = "SWARM"

\* The body of poll()'s for loop, from the i-th job of the answer on.
RECURSIVE pollLoop(_, _, _)
pollLoop(R, jobs, i) ==
    IF i > Len(jobs) THEN R
    ELSE LET id == jobs[i]
             job == Job(id)
         IN IF AlreadySeen(R, id)
            THEN pollLoop(R, jobs, i + 1)
            ELSE IF AtCapacity(R)
            THEN R
            ELSE IF BudgetTooLow(job)
            THEN LET R1 == emitEvent(R, "job_skipped", id)
                     R2 == markJobProcessed(R1, id)
                     R3 == [R2 EXCEPT !.stats.jobsSkipped = Inc(@)]
                 IN pollLoop(R3, jobs, i + 1)
            ELSE LET R1 == emitEvent(R, "job_found", id)
                     R2 == IF IsSwarm(job)
                           THEN acceptAndProcessSwarmJobStart(R1, id, "poll")
                           ELSE processJobStart(R1, id, FALSE)
                 IN pollLoop(R2, jobs, i + 1)

\* (A notification refused at capacity is recorded as a skip.)
handleWebSocketJobCapacityRecords(R, id) ==
    IF AlreadySeen(R, id) THEN R
    ELSE IF AtCapacity(R) \/ BudgetTooLow(Job(id))
    THEN [markJobProcessed(R, id) EXCEPT !.stats.jobsSkipped = Inc(@)]
    ELSE Suspend(R, Task(id, "fetch", "ws", FALSE))

\* handleWebSocketJob up to its first await (client.getJobV2).
handleWebSocketJob(R, id) ==
    LET event == Job(id)
    IN IF AlreadySeen(R, id) THEN R
       ELSE IF AtCapacity(R) THEN R
       ELSE IF BudgetTooLow(event)
       THEN LET R1 == markJobProcessed(R, id)
                R2 == [R1 EXCEPT !.stats.jobsSkipped = Inc(@)]
            IN R2
       ELSE Suspend(R,
                    Task(id, "fetch", "ws", FALSE))

\* ------------------------------------------------------------- the actions
Bounded(R) ==
    BagCardinality(R.tasks) <= MaxTasks

Commit(R, op, id, out) ==
    /\ Bounded(R)
    /\ processingJobs' = R.processing
    /\ processedJobs' = R.processed
    /\ jobStore' = R.store
    /\ tasks' = R.tasks
    /\ evicted' = R.evicted
    /\ last' = [op |-> op, id |-> id, out |-> out, jobs |-> R.jobs,
                events |-> R.events, stats |-> R.stats, llm |-> R.llm,
                accepted |-> R.accepted, uploadError |-> R.uploadError,
                cleanups |-> R.cleanups, usage |-> R.usage]

\* ------------------------------------------------------- the LLM client
\* Bounds on the retry configuration and on the draws of Math.random().
MaxRetryAttempts == 3    \* LLM_RETRY_MAX_ATTEMPTS ranges over 0..MaxRetryAttempts
RandomGrid == 4          \* Math.random() draws k / RandomGrid, 0 <= k < RandomGrid

\* LLM_RETRY_BASE_DELAY_MS and LLM_RETRY_MAX_DELAY_MS, in milliseconds.
BaseDelays == {3, 1000}

MaxDelays == {4, 1500, 10000}

\* The values executeGeneration may reject with.  A string is the sequence
\* of its pieces, so that `includes` is computed on it; type is the value's
\* typeof ("null" for null); name and message are <<>> when the value has
\* none; `cause` is <<>> or <<the value of the cause property>>.  They are:
\* errors retryable by their name, by their message, by the error that
\* caused them or by the cause of their cause, errors that are not
\* retryable, and values that are no objects.
JsonParseError ==
    [type |-> "object", name |-> <<"AI_", "JSONParseError">>,
     message |-> <<"Unexpected token">>, cause |-> <<>>]

ToolArgumentsMessage ==
    [type |-> "object", name |-> <<"Error">>,
     message |-> <<"Invalid arguments for tool", " create_file">>, cause |-> <<>>]

ApiCallError ==
    [type |-> "object", name |-> <<"AI_", "APICallError">>,
     message |-> <<"Unauthorized">>, cause |-> <<>>]

WrappedParseError ==
    [type |-> "object", name |-> <<"AI_", "ToolExecutionError">>,
     message |-> <<"tool failed">>, cause |-> <<JsonParseError>>]

WrappedApiError ==
    [type |-> "object", name |-> <<"AI_", "ToolExecutionError">>,
     message |-> <<"tool failed">>, cause |-> <<ApiCallError>>]

\* An error whose name holds a listed name inside a longer one.
SubclassParseError ==
    [type |-> "object", name |-> <<"Strict", "JSONParseError", "V2">>,
     message |-> <<>>, cause |-> <<>>]

\* An object without a name whose message holds 'JSON parsing failed'.
JsonMessageError ==
    [type |-> "object", name |-> <<>>,
     message |-> <<"Error: ", "JSON parsing failed", " at position 1">>,
     cause |-> <<>>]

\* An error whose cause has a retryable cause.
DeepParseError ==
    [type |-> "object", name |-> <<"Error">>, message |-> <<"step failed">>,
     cause |-> <<WrappedParseError>>]

\* `throw "JSON parsing failed"`, `throw undefined`, and an error whose cause
\* is that string.
ThrownString ==
    [type |-> "string", name |-> <<>>, message |-> <<>>, cause |-> <<>>]

ThrownUndefined ==
    [type |-> "undefined", name |-> <<>>, message |-> <<>>, cause |-> <<>>]

WrappedString ==
    [type |-> "object", name |-> <<"Error">>, message |-> <<"step failed">>,
     cause |-> <<ThrownString>>]

LLMErrors == {JsonParseError, ToolArgumentsMessage, ApiCallError,
              WrappedParseError, WrappedApiError, SubclassParseError,
              JsonMessageError, DeepParseError, ThrownString, ThrownUndefined,
              WrappedString}

\* String.prototype.includes on sequences of pieces.
includes(text, pattern) ==
    \E i \in 0..(Len(text) - Len(pattern)) :
        SubSeq(text, i + 1, i + Len(pattern)) = pattern

RETRYABLE_ERROR_PATTERNS ==
    {<<"InvalidToolArgumentsError">>, <<"AI_", "InvalidToolArgumentsError">>,
     <<"JSONParseError">>, <<"AI_", "JSONParseError">>}

\* RETRYABLE_ERROR_PATTERNS.some(name => errorName.includes(name)).
NameIsRetryable(name) ==
    \E pattern \in RETRYABLE_ERROR_PATTERNS : includes(name, pattern)

\* errorMessage.includes('JSON parsing failed') ||
\* errorMessage.includes('Invalid arguments for tool').
MessageIsRetryable(message) ==
    \/ includes(message, <<"JSON parsing failed">>)
    \/ includes(message, <<"Invalid arguments for tool">>)

\* (Every error is taken for a retryable one.)
isRetryableErrorAlways(error) == TRUE

\* `!error || typeof error !== 'object'` is false of the value.
IsObject(error) == error.type = "object"

RECURSIVE isRetryable(_)
isRetryable(error) ==
    /\ IsObject(error)
    /\ \/ NameIsRetryable(error.name)
       \/ MessageIsRetryable(error.message)
       \/ /\ error.cause # <<>>
          /\ isRetryable(error.cause[1])

\* (The cause of the error is not looked at.)
isRetryableErrorShallow(error) ==
    /\ IsObject(error)
    /\ \/ NameIsRetryable(error.name)
       \/ MessageIsRetryable(error.message)

isRetryableError(error) == isRetryable(error)

Min(a, b) == IF a <= b THEN a ELSE b

RECURSIVE Pow2(_)
Pow2(n) == IF n = 0 THEN 1 ELSE 2 * Pow2(n - 1)

\* Math.round of the non-negative rational num / den.
Round(num, den) == (2 * num + den) \div (2 * den)

\* (The jitter taken as delay * (Math.random() - 0.5): +-50%.)
getRetryDelayWideJitter(attempt, retryConfig, k) ==
    LET delay == Min(retryConfig.baseDelayMs * Pow2(attempt), retryConfig.maxDelayMs)
    IN Round(delay * (RandomGrid + 2 * k), 2 * RandomGrid)

\* (The exponential delay is not cut to maxDelayMs.)
getRetryDelayUncapped(attempt, retryConfig, k) ==
    LET delay == retryConfig.baseDelayMs * Pow2(attempt)
    IN Round(delay * (7 * RandomGrid + 2 * k), 8 * RandomGrid)

\* getRetryDelay with Math.random() = k / RandomGrid:
\*   delay + delay * 0.25 * (k / RandomGrid - 0.5)
\*     = delay * (7 * RandomGrid + 2 * k) / (8 * RandomGrid), rounded.
getRetryDelay(attempt, retryConfig, k) ==
    LET delay == Min(retryConfig.baseDelayMs * Pow2(attempt), retryConfig.maxDelayMs)
    IN Round(delay * (7 * RandomGrid + 2 * k), 8 * RandomGrid)

\* The retry configurations getRetryConfig() may return.
RetryConfigs ==
    [maxRetries : 0..MaxRetryAttempts, baseDelayMs : BaseDelays,
     maxDelayMs : MaxDelays, fallbackNoTools : BOOLEAN]

\* No call of generate was made yet.  Of a call in progress: pc is the await
\* it is suspended at ("attempt", "sleep", "fallback") or how it ended
\* ("returned", "thrown"); calls and fallbackCalls count the calls of
\* executeGeneration from the retry loop and from the fallback; tools and
\* note tell whether the latest call was given the tools and the text-only
\* note; sleeps counts the backoff waits and delay is the latest;
\* lastError is <<>> or <<the error>>; outcome is <<>>, <<"result", n>>
\* (the result of the n-th call) or <<"error", e>> (e is thrown; e is <<>>
\* for `undefined`).
IdleGen ==
    [pc |-> "idle",
     config |-> [maxRetries |-> 0, baseDelayMs |-> 0, maxDelayMs |-> 0,
                 fallbackNoTools |-> FALSE],
     hasTools |-> FALSE, attempt |-> 0, lastError |-> <<>>,
     calls |-> 0, fallbackCalls |-> 0, tools |-> FALSE, note |-> FALSE,
     sleeps |-> 0, delay |-> 0, outcome |-> <<>>]

\* ------------------------------------------ LLMClient.executeGeneration
\* Bound on result.steps, and the texts a step may hold ("": none).
MaxSteps == 3

StepTexts == {"", "Searching.", "Here is the page.", "Done."}

\* What generateText answers.  A step other than the last is followed by
\* another one because it called tools (maxSteps is 10 with tools and 1
\* without), and result.text is the text of the last step.
StepSeqs ==
    UNION {[1..n -> [text : StepTexts, toolCalls : 0..1]] : n \in 1..MaxSteps}

GenerateTextResults ==
    {[text |-> steps[Len(steps)].text, steps |-> steps] :
        steps \in {q \in StepSeqs : \A i \in 1..(Len(q) - 1) : q[i].toolCalls > 0}}

\* toolCalls.length after the loop over result.steps.
ToolCallsLength(steps) ==
    LET RECURSIVE Sum(_)
        Sum(i) == IF i = 0 THEN 0 ELSE steps[i].toolCalls + Sum(i - 1)
    IN Sum(Len(steps))

\* The loop `for (let i = result.steps.length - 1; i >= 0; i--)` from step
\* i down: the text of the first step met that has some, else finalText.
RECURSIVE lastStepText(_, _, _)
lastStepText(steps, i, finalText) ==
    IF i = 0 THEN finalText
    ELSE IF steps[i].text # "" THEN steps[i].text
    ELSE lastStepText(steps, i - 1, finalText)

\* (The text is taken from the first step that has some.)
finalTextFirstStep(result) ==
    IF result.text = "" /\ ToolCallsLength(result.steps) > 0
    THEN LET withText == {i \in 1..Len(result.steps) : result.steps[i].text # ""}
         IN IF withText = {} THEN result.text
            ELSE result.steps[CHOOSE i \in withText : \A j \in withText : i <= j].text
    ELSE result.text

\* The text executeGeneration returns.
finalText(result) ==
    IF result.text = "" /\ ToolCallsLength(result.steps) > 0
    THEN lastStepText(result.steps, Len(result.steps), result.text)
    ELSE result.text

\* No call of executeGeneration was made yet.  Of a call: pc is
\* "generateText" while the backend is awaited and "returned" after;
\* result is <<>> or <<what generateText answered>>; text is the text of
\* the LLMResponse.
IdleExec == [pc |-> "idle", result |-> <<>>, text |-> ""]

\* ------------------------------------------------- SeedstrClient.request
\* The endpoints the client's methods request, and whether on the v2 base.
Endpoints == {<<"/me", FALSE>>, <<"/jobs", TRUE>>, <<"/jobs/1", TRUE>>,
              <<"/jobs/1/accept", TRUE>>, <<"/jobs/1/respond", FALSE>>}

\* HTTP statuses; Response.ok is true for a status of 200 to 299.
Statuses == {200, 401, 404, 500, 502}

ResponseOk(status) == status >= 200 /\ status <= 299

\* Bodies of a response: a JSON object with a message, with an empty
\* message, without a message ("" stands for undefined: both are falsy),
\* the JSON value null, and a body that is no JSON (an HTML error page).
Bodies ==
    {[json |-> TRUE,  isNull |-> FALSE, message |-> "Invalid API key"],
     [json |-> TRUE,  isNull |-> FALSE, message |-> ""],
     [json |-> TRUE,  isNull |-> TRUE,  message |-> ""],
     [json |-> FALSE, isNull |-> FALSE, message |-> ""]}

\* No request was made yet.  Of a request in progress: pc is the await it
\* is suspended at ("fetch", "json") or how it ended ("resolved",
\* "rejected"); outcome is <<>>, <<the data resolved with>> or the message
\* of the Error rejected with, as <<text>> or <<text, status>>.
IdleRequest ==
    [pc |-> "idle", endpoint |-> <<"", FALSE>>, status |-> 0,
     body |-> [json |-> FALSE, isNull |-> FALSE, message |-> ""],
     outcome |-> <<>>]

\* `error.message || "API request failed: " + response.status`.
ErrorMessage(data, status) ==
    IF data.message # "" THEN <<data.message>>
    ELSE <<"API request failed: ", status>>

\* request() after `await response.json()` answered with the parsed body.
afterJson(r) ==
    IF ~ResponseOk(r.status)
    THEN IF r.body.isNull
         THEN [r EXCEPT !.pc = "rejected",
                        !.outcome = <<"Cannot read properties of null">>]
         ELSE [r EXCEPT !.pc = "rejected",
                        !.outcome = ErrorMessage(r.body, r.status)]
    ELSE [r EXCEPT !.pc = "resolved", !.outcome = <<r.body>>]

\* ----------------------------------------------------------- webSearch
\* Queries: well-formed strings, and a string with a lone surrogate, for
\* which encodeURIComponent throws a URIError.
Queries == {"bitcoin price", "weather in Paris", "lone surrogate"}

encodeURIComponentThrows(query) == query = "lone surrogate"

\* config.tavilyApiKey: "" when TAVILY_API_KEY is not set.
TavilyKeys == {"", "tvly-key"}

\* Bound on the result lists of the answers of the search services.
MaxResults == 2

\* What response.json() of Tavily gives: an answer ("": none) and a number
\* of results; or it throws.
TavilyBodies == [answer : {"", "42"}, results : 0..MaxResults]

\* What response.json() of DuckDuckGo gives: whether Abstract and
\* AbstractURL are there, and a number of RelatedTopics with Text and
\* FirstURL; or it throws.
DDGBodies == [abstract : BOOLEAN, abstractURL : BOOLEAN,
              topics : 0..(MaxResults + 3)]

\* No search was made yet.  Of a search in progress: pc is the await it is
\* suspended at or how it ended ("returned", "rejected"); calls are the
\* services requested so far; data is <<the body parsed>>; results are the
\* titles returned.
IdleSearch ==
    [pc |-> "idle", query |-> "", key |-> "", calls |-> <<>>, data |-> <<>>,
     results |-> <<>>, ddgFailed |-> FALSE, ddgEmpty |-> FALSE]

TavilyResults(data) ==
    (IF data.answer # "" THEN <<"Direct Answer">> ELSE <<>>)
        \o [i \in 1..data.results |-> "Tavily result"]

\* RelatedTopics.slice(0, 4), after the abstract when both its fields are there.
DDGResults(data) ==
    (IF data.abstract /\ data.abstractURL THEN <<"Heading">> ELSE <<>>)
        \o [i \in 1..Min(data.topics, 4) |-> "Related topic"]

\* The catch block of duckDuckGoSearch: the "Search unavailable" entry,
\* whose url is built with encodeURIComponent(query).
ddgCatch(s) ==
    IF encodeURIComponentThrows(s.query)
    THEN [s EXCEPT !.pc = "rejected"]
    ELSE [s EXCEPT !.pc = "returned", !.ddgFailed = TRUE,
                   !.results = <<"Search unavailable">>]

\* duckDuckGoSearch up to its await of fetch.
duckDuckGoSearch(s) ==
    IF encodeURIComponentThrows(s.query)
    THEN ddgCatch(s)
    ELSE [s EXCEPT !.pc = "ddgFetch", !.calls = Append(@, "duckduckgo")]

\* The catch block of tavilySearch.
tavilyCatch(s) == duckDuckGoSearch(s)

\* tavilySearch up to its await of fetch.
tavilySearch(s) ==
    [s EXCEPT !.pc = "tavilyFetch", !.calls = Append(@, "tavily")]

\* stats.totalPromptTokens, totalCompletionTokens, totalTokens, totalCost.
ZeroTotals == [promptTokens |-> 0, completionTokens |-> 0, totalTokens |-> 0, cost |-> 0]

\* The calls of generate() followed for their project builds, the files one
\* attempt may create, and retryConfig.maxRetries of these calls.
NCalls == 2
MaxFiles == 2
BuildRetries == 1

Calls == 1..NCalls

\* One call of generate(): where it is suspended, its attempt, the files its
\* create_file calls created in this attempt, the answer of its
\* finalize_project call (<<>>: none) and the projectBuild of its result.
IdleCall == [pc |-> "idle", attempt |-> 0, created |-> {}, finalize |-> <<>>,
             projectBuild |-> <<>>]

\* activeProjectBuilder (<<>>: null) and the calls of generate().
IdleBuild == [active |-> <<>>, calls |-> [c \in Calls |-> IdleCall]]

\* The constructor's `new Set(jobStore.get("processedJobs") || [])`.
LoadProcessedEmpty(store) == <<>>

LoadProcessed(store) == SetOfArray(store)

\* The state a newly constructed AgentRunner has, given the persisted store.
Constructed(store) ==
    /\ running = FALSE
    /\ pollTimer = "null"
    /\ leakedTimers = 0
    /\ pollReqs = 0
    /\ pusher = FALSE
    /\ processingJobs = {}
    /\ processedJobs = LoadProcessed(store)
    /\ jobStore = store
    /\ tasks = EmptyBag
    /\ bootIds = Range(store)
    /\ evicted = {}
    /\ gen = IdleGen
    /\ req = IdleRequest
    /\ search = IdleSearch
    /\ exec = IdleExec
    /\ builder = IdleBuild
    /\ totals = ZeroTotals
    /\ last = NoStep

Init == Constructed(<<>>)

PollChains == pollReqs + leakedTimers + (IF pollTimer = "pending" THEN 1 ELSE 0)

\* start(): nothing when already running; else the push channel is
\* subscribed and the first poll request is sent.  (A worker without a
\* configured push channel behaves as one that receives no notification.)
Start ==
    IF running
    THEN /\ last' = [NoStep EXCEPT !.op = "start", !.out = "already running"]
         /\ UNCHANGED <<running, pollTimer, leakedTimers, pollReqs, pusher,
                        processingJobs, processedJobs, jobStore, tasks,
                        bootIds, evicted, gen, req, search, exec, builder, totals>>
    ELSE /\ PollChains < MaxPolls
         /\ running' = TRUE
         /\ pusher' = TRUE
         /\ pollReqs' = pollReqs + 1
         /\ Commit(emitEvent(emitEvent(Cur, "startup", 0), "polling", 0), "start", 0, "started")
         /\ UNCHANGED <<pollTimer, leakedTimers, bootIds, gen, req, search, exec, builder, totals>>

\* (stop() that also drops the pipelines in flight.)
StopCancels ==
    /\ running' = FALSE
    /\ pollTimer' = "null"
    /\ pusher' = FALSE
    /\ Commit([emitEvent(Cur, "shutdown", 0) EXCEPT !.tasks = EmptyBag,
                                                    !.processing = {}],
              "stop", 0, "")
    /\ UNCHANGED <<leakedTimers, pollReqs, bootIds, gen, req, search, exec, builder, totals>>

\* stop(): discovery is halted, pipelines in flight are left alone.
Stop ==
    /\ running' = FALSE
    /\ pollTimer' = "null"
    /\ pusher' = FALSE
    /\ Commit(emitEvent(Cur, "shutdown", 0), "stop", 0, "")
    /\ UNCHANGED <<leakedTimers, pollReqs, bootIds, gen, req, search, exec, builder, totals>>

\* poll() entered from a timer: returns at once when not running, else
\* emits polling and awaits listJobsV2.
pollEnter(op) ==
    IF running
    THEN /\ pollReqs' = pollReqs + 1
         /\ Commit(emitEvent(Cur, "polling", 0), op, 0, "polling")
    ELSE /\ pollReqs' = pollReqs
         /\ Commit(Cur, op, 0, "not running")

\* The timeout held by pollTimer fires.
TimerFire ==
    /\ pollTimer = "pending"
    /\ pollTimer' = "fired"
    /\ pollEnter("timer")
    /\ UNCHANGED <<running, leakedTimers, pusher, bootIds, gen, req, search, exec, builder, totals>>

\* A timeout whose handle was overwritten by a later setTimeout fires.
LeakedTimerFire ==
    /\ leakedTimers > 0
    /\ leakedTimers' = leakedTimers - 1
    /\ pollEnter("leakedTimer")
    /\ UNCHANGED <<running, pollTimer, pusher, bootIds, gen, req, search, exec, builder, totals>>

\* The end of poll(): the next poll is scheduled when still running.
pollSchedule ==
    /\ pollReqs' = pollReqs - 1
    /\ IF running
       THEN /\ pollTimer' = "pending"
            /\ leakedTimers' = leakedTimers + (IF pollTimer = "pending" THEN 1 ELSE 0)
       ELSE UNCHANGED <<pollTimer, leakedTimers>>

\* listJobsV2 answers with a list of jobs: the for loop runs to its end.
PollReturn(jobs) ==
    /\ pollReqs > 0
    /\ pollSchedule
    /\ Commit(pollLoop([Cur EXCEPT !.jobs = jobs], jobs, 1), "pollReturn", 0, "ok")
    /\ UNCHANGED <<running, pusher, bootIds, gen, req, search, exec, builder, totals>>

\* (The catch block returns: the next poll is not scheduled.)
PollFailStops ==
    /\ pollReqs > 0
    /\ pollReqs' = pollReqs - 1
    /\ Commit([emitEvent(Cur, "error", 0) EXCEPT !.stats.errors = Inc(@)],
              "pollReturn", 0, "error")
    /\ UNCHANGED <<running, pollTimer, leakedTimers, pusher, bootIds, gen, req, search, exec, builder, totals>>

\* listJobsV2 rejects: poll()'s catch block.
PollFail ==
    /\ pollReqs > 0
    /\ pollSchedule
    /\ Commit([emitEvent(Cur, "error", 0) EXCEPT !.stats.errors = Inc(@)],
              "pollReturn", 0, "error")
    /\ UNCHANGED <<running, pusher, bootIds, gen, req, search, exec, builder, totals>>

\* A job:new notification arrives on the subscribed channel.
WsJob(id) ==
    /\ pusher
    /\ Commit(handleWebSocketJob(emitEvent(Cur, "websocket_job", id), id), "wsJob", id, "")
    /\ UNCHANGED <<running, pollTimer, leakedTimers, pollReqs, pusher, bootIds, gen, req, search, exec, builder, totals>>



Lifecycle == <<running, pollTimer, leakedTimers, pollReqs, pusher, bootIds, gen, req, search, exec, builder, totals>>

Suspended(pc) == {t \in BagToSet(tasks) : t.pc = pc}

\* getJobV2 answers: job_found, then a SWARM job is accepted first and any
\* other job is processed directly.
FetchReturn(t) ==
    /\ t \in Suspended("fetch")
    /\ LET R1 == emitEvent(Resume(Cur, t), "job_found", t.id)
           R2 == IF IsSwarm(Job(t.id))
                 THEN acceptAndProcessSwarmJobStart(R1, t.id, "ws")
                 ELSE processJobStart(R1, t.id, FALSE)
       IN Commit(R2, "fetchReturn", t.id, "ok")
    /\ UNCHANGED Lifecycle

\* (The catch block also records the job as processed.)
FetchFailRecords(t) ==
    /\ t \in Suspended("fetch")
    /\ Commit([markJobProcessed(Resume(Cur, t), t.id) EXCEPT !.stats.errors = Inc(@)],
              "fetchReturn", t.id, "error")
    /\ UNCHANGED Lifecycle

\* getJobV2 rejects: handleWebSocketJob's catch block.
FetchFail(t) ==
    /\ t \in Suspended("fetch")
    /\ Commit([Resume(Cur, t) EXCEPT !.stats.errors = Inc(@)], "fetchReturn", t.id, "error")
    /\ UNCHANGED Lifecycle

\* The budgetPerAgent an acceptance may carry: the advertised share of the
\* job, or another amount the server decided on.
AcceptedBudgets(job) == {job.budgetPerAgent, 60}

\* acceptJob answers with result.acceptance.budgetPerAgent = accepted:
\* job_accepted carries it, then processJob(job, true) runs on the job the
\* function was given.
AcceptReturn(t, accepted) ==
    /\ t \in Suspended("accept")
    /\ LET R1 == emitEvent(Resume(Cur, t), "job_accepted", t.id)
           R2 == [R1 EXCEPT !.accepted = accepted]
       IN Commit(processJobStart(R2, t.id, TRUE), "acceptReturn", t.id, "ok")
    /\ UNCHANGED Lifecycle

\* The catch block of acceptAndProcessSwarmJob, and for an error it
\* rethrows the handler of its caller: poll()'s .catch emits an error event,
\* handleWebSocketJob's catch counts an error.
acceptCatchFullIsError(R, t, msg) ==
    IF IncludesAlreadyAccepted(msg)
    THEN R
    ELSE IF t.src = "poll"
    THEN emitEvent(R, "error", t.id)
    ELSE [R EXCEPT !.stats.errors = Inc(@)]

acceptCatch(R, t, msg) ==
    IF IncludesJobFull(msg) \/ IncludesAllAgentSlots(msg)
    THEN [markJobProcessed(R, t.id) EXCEPT !.stats.jobsSkipped = Inc(@)]
    ELSE IF IncludesAlreadyAccepted(msg)
    THEN R
    ELSE IF t.src = "poll"
    THEN emitEvent(R, "error", t.id)
    ELSE [R EXCEPT !.stats.errors = Inc(@)]

\* acceptJob rejects with message msg.
AcceptFail(t, msg) ==
    /\ t \in Suspended("accept")
    /\ Commit(acceptCatch(Resume(Cur, t), t, msg), "acceptReturn", t.id, msg)
    /\ UNCHANGED Lifecycle

\* processJob after llm.generate answered, up to the next await: the upload
\* of the zip when a project was built, else the text-only submission.
generated(R, t, build) ==
    LET R1 == emitEvent(R, "response_generated", t.id)
    IN IF build
       THEN LET R2 == emitEvent(emitEvent(R1, "project_built", t.id), "files_uploading", t.id)
            IN Suspend(R2, [t EXCEPT !.pc = "upload"])
       ELSE Suspend(R1, [t EXCEPT !.pc = "submit", !.call = submitCall(t.v2, FALSE)])

\* generate() answers with a result that has no usage.
GenerateReturn(t, build) ==
    /\ t \in Suspended("generate")
    /\ Commit(generated(Resume(Cur, t), t, build), "generateReturn", t.id,
              IF build THEN "build" ELSE "text")
    /\ UNCHANGED Lifecycle

\* The rates of the configured model, per million tokens.
MODEL_COSTS == [input |-> 3, output |-> 15]

\* estimateCost, in millionths of a dollar.
estimateCost(promptTokens, completionTokens) ==
    promptTokens * MODEL_COSTS.input + completionTokens * MODEL_COSTS.output

\* The usage a result may carry: token counts up to MaxTokens.
MaxTokens == 2

Usages ==
    {[promptTokens |-> p, completionTokens |-> c, totalTokens |-> p + c] :
        p \in 0..MaxTokens, c \in 0..MaxTokens}

\* The TokenUsage built from result.usage.
TokenUsage(usage) ==
    [promptTokens |-> usage.promptTokens,
     completionTokens |-> usage.completionTokens,
     totalTokens |-> usage.totalTokens,
     estimatedCost |-> estimateCost(usage.promptTokens, usage.completionTokens)]

\* (The cumulative stats are assigned, not added to.)
trackUsageOverwrites(stats, usage) ==
    [promptTokens |-> usage.promptTokens,
     completionTokens |-> usage.completionTokens,
     totalTokens |-> usage.totalTokens,
     cost |-> estimateCost(usage.promptTokens, usage.completionTokens)]

\* "Update cumulative stats": the four += of processJob.
trackUsage(stats, usage) ==
    [promptTokens |-> stats.promptTokens + usage.promptTokens,
     completionTokens |-> stats.completionTokens + usage.completionTokens,
     totalTokens |-> stats.totalTokens + usage.totalTokens,
     cost |-> stats.cost + estimateCost(usage.promptTokens, usage.completionTokens)]

\* generate() answers with a result that has a usage: the totals are
\* updated in the step that resumes processJob.
GenerateReturnUsage(t, build, usage) ==
    /\ t \in Suspended("generate")
    /\ totals' = trackUsage(totals, usage)
    /\ Commit([generated(Resume(Cur, t), t, build) EXCEPT !.usage = <<TokenUsage(usage)>>],
              "generateReturn", t.id, IF build THEN "build" ELSE "text")
    /\ UNCHANGED <<running, pollTimer, leakedTimers, pollReqs, pusher, bootIds,
                   gen, req, search, exec, builder>>

\* An await inside processJob's try block rejects with msg and no inner
\* handler takes it: the catch block, then the finally block.
failed(R, t, msg) ==
    LET R1 == [R EXCEPT !.uploadError = t.uploadError]
    IN processJobFinally(processJobCatch(R1, t.id, msg), t.id)

GenerateFail(t, msg) ==
    /\ t \in Suspended("generate")
    /\ Commit(failed(Resume(Cur, t), t, msg), "generateReturn", t.id, msg)
    /\ UNCHANGED Lifecycle

\* uploadFile answers: files_uploaded, then the submission with the file.
UploadReturn(t) ==
    /\ t \in Suspended("upload")
    /\ LET R1 == emitEvent(Resume(Cur, t), "files_uploaded", t.id)
       IN Commit(Suspend(R1, [t EXCEPT !.pc = "submitFiles",
                                       !.call = submitCall(t.v2, TRUE)]),
                 "uploadReturn", t.id, "ok")
    /\ UNCHANGED Lifecycle

\* (The failure goes to processJob's catch block: no text-only fallback.)
fallbackRethrows(R, t, uploadError) == failed(R, t, uploadError)

\* The inner catch (uploadError): the text-only submission is sent.
fallback(R, t, uploadError) ==
    Suspend(R, [t EXCEPT !.pc = "submitFallback", !.uploadError = uploadError,
                         !.call = submitCall(t.v2, FALSE)])

\* What uploadFile rejects with.
UploadErrors == {"Upload failed"}

\* uploadFile rejects.
UploadFail(t, msg) ==
    /\ t \in Suspended("upload")
    /\ Commit(fallback(Resume(Cur, t), t, msg), "uploadReturn", t.id, msg)
    /\ UNCHANGED Lifecycle

\* The cleanupProject that follows response_submitted in both branches of a
\* job with a project build.
cleanupProject(R, t) ==
    IF t.pc \in {"submitFiles", "submitFallback"}
    THEN [R EXCEPT !.cleanups = Inc(@)]
    ELSE R

\* A submission answered: response_submitted, the cleanup of a project
\* build, jobsProcessed++, finally.
submitted(R, t, hasFiles) ==
    LET R1 == cleanupProject(emitSubmitted(R, t.id, hasFiles), t)
        R2 == [R1 EXCEPT !.stats.jobsProcessed = Inc(@),
                         !.uploadError = t.uploadError]
    IN processJobFinally(R2, t.id)

\* The submission with the uploaded file answers.
SubmitFilesReturn(t) ==
    /\ t \in Suspended("submitFiles")
    /\ Commit(submitted(Resume(Cur, t), t, TRUE), "submitFilesReturn", t.id, "ok")
    /\ UNCHANGED Lifecycle

\* The submission with the uploaded file rejects: it is awaited inside the
\* same try block as the upload, so the inner catch takes it.
SubmitFilesFail(t, msg) ==
    /\ t \in Suspended("submitFiles")
    /\ Commit(fallback(Resume(Cur, t), t, msg), "submitFilesReturn", t.id, msg)
    /\ UNCHANGED Lifecycle

\* The text-only submission sent by the inner catch answers.
SubmitFallbackReturn(t) ==
    /\ t \in Suspended("submitFallback")
    /\ Commit(submitted(Resume(Cur, t), t, FALSE), "submitFallbackReturn", t.id, "ok")
    /\ UNCHANGED Lifecycle

SubmitFallbackFail(t, msg) ==
    /\ t \in Suspended("submitFallback")
    /\ Commit(failed(Resume(Cur, t), t, msg), "submitFallbackReturn", t.id, msg)
    /\ UNCHANGED Lifecycle

\* The text-only submission of a job without a project build answers.
SubmitReturn(t) ==
    /\ t \in Suspended("submit")
    /\ Commit(submitted(Resume(Cur, t), t, FALSE), "submitReturn", t.id, "ok")
    /\ UNCHANGED Lifecycle

SubmitFail(t, msg) ==
    /\ t \in Suspended("submit")
    /\ Commit(failed(Resume(Cur, t), t, msg), "submitReturn", t.id, msg)
    /\ UNCHANGED Lifecycle

\* The process ends and a new one is constructed: only the store survives.
Restart ==
    /\ running' = FALSE
    /\ pollTimer' = "null"
    /\ leakedTimers' = 0
    /\ pollReqs' = 0
    /\ pusher' = FALSE
    /\ processingJobs' = {}
    /\ processedJobs' = LoadProcessed(jobStore)
    /\ jobStore' = jobStore
    /\ tasks' = EmptyBag
    /\ bootIds' = Range(jobStore)
    /\ evicted' = {}
    /\ gen' = IdleGen
    /\ req' = IdleRequest
    /\ search' = IdleSearch
    /\ exec' = IdleExec
    /\ builder' = IdleBuild
    /\ totals' = ZeroTotals
    /\ last' = [NoStep EXCEPT !.op = "restart"]

\* ------------------------------------------ LLMClient.generate, step by step
RunnerVars == <<running, pollTimer, leakedTimers, pollReqs, pusher,
                processingJobs, processedJobs, jobStore, tasks, bootIds,
                evicted, last>>

\* The error object a call of executeGeneration rejects with: one of
\* LLMErrors, raised by the n-th call.
Raised(shape, n) ==
    [type |-> shape.type, name |-> shape.name, message |-> shape.message,
     cause |-> shape.cause, at |-> n]

BackendCalls(g) == g.calls + g.fallbackCalls

\* `throw e` out of generate.
throw(g, e) == [g EXCEPT !.pc = "thrown", !.outcome = <<"error", e>>]

\* One pass of `while (attempt <= retryConfig.maxRetries)` up to the await
\* of executeGeneration; `throw lastError` when the loop is left.
attemptLoop(g) ==
    IF g.attempt <= g.config.maxRetries
    THEN [g EXCEPT !.pc = "attempt", !.calls = @ + 1, !.tools = g.hasTools,
                   !.note = FALSE]
    ELSE throw(g, g.lastError)

\* generate(options) is called: tools are in use when they are enabled and
\* getTools() returned some.
Generate(retryConfig, hasTools) ==
    /\ gen.pc = "idle"
    /\ gen' = attemptLoop([IdleGen EXCEPT !.config = retryConfig,
                                          !.hasTools = hasTools])
    /\ UNCHANGED <<RunnerVars, req, search, exec, builder, totals>>

\* executeGeneration answers in the retry loop: `return result`.
ExecReturn ==
    /\ gen.pc = "attempt"
    /\ gen' = [gen EXCEPT !.pc = "returned",
                          !.outcome = <<"result", BackendCalls(gen)>>]
    /\ UNCHANGED <<RunnerVars, req, search, exec, builder, totals>>

\* (attempt++ left out.)
NextAttemptStuck(attempt) == attempt

\* attempt++
NextAttempt(attempt) == attempt + 1

\* (The fallback's own error is thrown.)
FallbackThrownOwn(lastError, fallbackError) == <<fallbackError>>

\* The error thrown when the fallback fails too: `throw lastError`.
FallbackThrown(lastError, fallbackError) == lastError

\* The catch block of the retry loop, with Math.random() = k / RandomGrid.
catchGeneration(g, error, k) ==
    LET g1 == [g EXCEPT !.lastError = <<error>>]
    IN IF isRetryableError(error) /\ g1.attempt < g1.config.maxRetries
       THEN [g1 EXCEPT !.pc = "sleep", !.sleeps = @ + 1,
                       !.delay = getRetryDelay(g1.attempt, g1.config, k)]
       ELSE IF /\ g1.hasTools
               /\ g1.config.fallbackNoTools
               /\ g1.attempt >= g1.config.maxRetries
               /\ isRetryableError(error)
       THEN [g1 EXCEPT !.pc = "fallback", !.fallbackCalls = @ + 1,
                       !.tools = FALSE, !.note = TRUE]
       ELSE throw(g1, <<error>>)

\* executeGeneration rejects in the retry loop.
ExecFail(shape, k) ==
    /\ gen.pc = "attempt"
    /\ gen' = catchGeneration(gen, Raised(shape, BackendCalls(gen)), k)
    /\ UNCHANGED <<RunnerVars, req, search, exec, builder, totals>>

\* sleep(delay) is over: attempt++; continue.
SleepDone ==
    /\ gen.pc = "sleep"
    /\ gen' = attemptLoop([gen EXCEPT !.attempt = NextAttempt(@)])
    /\ UNCHANGED <<RunnerVars, req, search, exec, builder, totals>>

\* The fallback call without tools answers: `return fallbackResult`.
FallbackReturn ==
    /\ gen.pc = "fallback"
    /\ gen' = [gen EXCEPT !.pc = "returned",
                          !.outcome = <<"result", BackendCalls(gen)>>]
    /\ UNCHANGED <<RunnerVars, req, search, exec, builder, totals>>

\* The fallback call rejects.
FallbackFail(shape) ==
    /\ gen.pc = "fallback"
    /\ gen' = throw(gen, FallbackThrown(gen.lastError,
                                        Raised(shape, BackendCalls(gen))))
    /\ UNCHANGED <<RunnerVars, req, search, exec, builder, totals>>

\* One call of generate, for every retry configuration, with and without
\* tools, and every sequence of answers of the backend.
NextLLM ==
    \/ \E retryConfig \in RetryConfigs, hasTools \in BOOLEAN :
          Generate(retryConfig, hasTools)
    \/ ExecReturn
    \/ \E shape \in LLMErrors, k \in 0..(RandomGrid - 1) : ExecFail(shape, k)
    \/ SleepDone
    \/ FallbackReturn
    \/ \E shape \in LLMErrors : FallbackFail(shape)

SpecLLM == Init /\ [][NextLLM]_vars

\* The same, where the backend answers every call and every timeout fires.
SpecLLMFair == SpecLLM /\ WF_vars(NextLLM)

\* ------------------------------- LLMClient.executeGeneration, step by step
ToolFrame == <<RunnerVars, gen, req, search, builder, totals>>

\* executeGeneration is called: generateText is awaited.
ExecuteGeneration ==
    /\ exec.pc \in {"idle", "returned"}
    /\ exec' = [IdleExec EXCEPT !.pc = "generateText"]
    /\ UNCHANGED ToolFrame

\* generateText answers: the LLMResponse is built and returned.
GenerateTextReturn(result) ==
    /\ exec.pc = "generateText"
    /\ exec' = [pc |-> "returned", result |-> <<result>>, text |-> finalText(result)]
    /\ UNCHANGED ToolFrame

NextExec ==
    \/ ExecuteGeneration
    \/ \E result \in GenerateTextResults : GenerateTextReturn(result)

SpecExec == Init /\ [][NextExec]_vars

\* ------------------------------------- SeedstrClient.request, step by step
\* request(endpoint, options, useV2) is called: fetch is awaited.
Request(endpoint) ==
    /\ req.pc = "idle"
    /\ req' = [IdleRequest EXCEPT !.pc = "fetch", !.endpoint = endpoint]
    /\ UNCHANGED <<RunnerVars, gen, search, exec, builder, totals>>

\* fetch answers with a response: response.json() is awaited.
RequestFetchReturn(status, body) ==
    /\ req.pc = "fetch"
    /\ req' = [req EXCEPT !.pc = "json", !.status = status, !.body = body]
    /\ UNCHANGED <<RunnerVars, gen, search, exec, builder, totals>>

\* fetch rejects (no connection).
RequestFetchFail ==
    /\ req.pc = "fetch"
    /\ req' = [req EXCEPT !.pc = "rejected", !.outcome = <<"fetch failed">>]
    /\ UNCHANGED <<RunnerVars, gen, search, exec, builder, totals>>

\* response.json() answers, or rejects with a SyntaxError when the body is
\* no JSON.
RequestJson ==
    /\ req.pc = "json"
    /\ req' = IF req.body.json
              THEN afterJson(req)
              ELSE [req EXCEPT !.pc = "rejected",
                               !.outcome = <<"Unexpected token < in JSON">>]
    /\ UNCHANGED <<RunnerVars, gen, search, exec, builder, totals>>

NextRequest ==
    \/ \E endpoint \in Endpoints : Request(endpoint)
    \/ \E status \in Statuses, body \in Bodies : RequestFetchReturn(status, body)
    \/ RequestFetchFail
    \/ RequestJson

SpecRequest == Init /\ [][NextRequest]_vars

\* --------------------------------------------------- webSearch, step by step
\* webSearch(query) is called.
WebSearch(query, key) ==
    /\ search.pc = "idle"
    /\ LET s == [IdleSearch EXCEPT !.query = query, !.key = key]
       IN search' = IF key # "" THEN tavilySearch(s) ELSE duckDuckGoSearch(s)
    /\ UNCHANGED <<RunnerVars, gen, req, exec, builder, totals>>

\* The request to Tavily answers: not ok throws, else the body is awaited.
TavilyFetchReturn(ok) ==
    /\ search.pc = "tavilyFetch"
    /\ search' = IF ok THEN [search EXCEPT !.pc = "tavilyJson"]
                 ELSE tavilyCatch(search)
    /\ UNCHANGED <<RunnerVars, gen, req, exec, builder, totals>>

TavilyFetchFail ==
    /\ search.pc = "tavilyFetch"
    /\ search' = tavilyCatch(search)
    /\ UNCHANGED <<RunnerVars, gen, req, exec, builder, totals>>

\* Tavily's body is parsed: its results are returned, also when there are
\* none.
TavilyJsonReturn(data) ==
    /\ search.pc = "tavilyJson"
    /\ search' = [search EXCEPT !.pc = "returned", !.data = <<data>>,
                                !.results = TavilyResults(data)]
    /\ UNCHANGED <<RunnerVars, gen, req, exec, builder, totals>>

TavilyJsonFail ==
    /\ search.pc = "tavilyJson"
    /\ search' = tavilyCatch(search)
    /\ UNCHANGED <<RunnerVars, gen, req, exec, builder, totals>>

\* The request to DuckDuckGo answers.
DDGFetchReturn(ok) ==
    /\ search.pc = "ddgFetch"
    /\ search' = IF ok THEN [search EXCEPT !.pc = "ddgJson"]
                 ELSE ddgCatch(search)
    /\ UNCHANGED <<RunnerVars, gen, req, exec, builder, totals>>

DDGFetchFail ==
    /\ search.pc = "ddgFetch"
    /\ search' = ddgCatch(search)
    /\ UNCHANGED <<RunnerVars, gen, req, exec, builder, totals>>

\* DuckDuckGo's body is parsed: its results, or the "No instant results
\* available" entry when there are none.
DDGJsonReturn(data) ==
    /\ search.pc = "ddgJson"
    /\ LET results == DDGResults(data)
       IN search' = IF Len(results) = 0
                    THEN [search EXCEPT !.pc = "returned", !.data = <<data>>,
                                        !.ddgEmpty = TRUE,
                                        !.results = <<"No instant results available">>]
                    ELSE [search EXCEPT !.pc = "returned", !.data = <<data>>,
                                        !.results = results]
    /\ UNCHANGED <<RunnerVars, gen, req, exec, builder, totals>>

DDGJsonFail ==
    /\ search.pc = "ddgJson"
    /\ search' = ddgCatch(search)
    /\ UNCHANGED <<RunnerVars, gen, req, exec, builder, totals>>

NextSearch ==
    \/ \E query \in Queries, key \in TavilyKeys : WebSearch(query, key)
    \/ \E ok \in BOOLEAN : TavilyFetchReturn(ok)
    \/ TavilyFetchFail
    \/ \E data \in TavilyBodies : TavilyJsonReturn(data)
    \/ TavilyJsonFail
    \/ \E ok \in BOOLEAN : DDGFetchReturn(ok)
    \/ DDGFetchFail
    \/ \E data \in DDGBodies : DDGJsonReturn(data)
    \/ DDGJsonFail

SpecSearch == Init /\ [][NextSearch]_vars

GenerateErrors == {"No output generated"}

\* The lists listJobsV2 may answer: distinct jobs, at most MaxList of them.
JobLists == {jobs \in DistinctSeqs(JobIds) : Len(jobs) <= MaxList}

\* Discovery: the poll chain and the push channel.
Discovery ==
    \/ Start
    \/ TimerFire
    \/ \E jobs \in JobLists : PollReturn(jobs)
    \/ PollFail
    \/ \E id \in JobIds : WsJob(id)

\* The pipeline of a job whose generation builds no project.
Pipeline ==
    \/ \E t \in BagToSet(tasks) : FetchReturn(t)
    \/ \E t \in BagToSet(tasks) : FetchFail(t)
    \/ \E t \in BagToSet(tasks) :
          \E accepted \in AcceptedBudgets(Job(t.id)) : AcceptReturn(t, accepted)
    \/ \E t \in BagToSet(tasks), msg \in AcceptErrors : AcceptFail(t, msg)
    \/ \E t \in BagToSet(tasks) : GenerateReturn(t, FALSE)
    \/ \E t \in BagToSet(tasks), msg \in GenerateErrors : GenerateFail(t, msg)
    \/ \E t \in BagToSet(tasks) : SubmitReturn(t)
    \/ \E t \in BagToSet(tasks), msg \in SubmitErrors : SubmitFail(t, msg)

\* The steps of a pipeline whose generation built a project.
BuildPipeline ==
    \/ \E t \in BagToSet(tasks) : GenerateReturn(t, TRUE)
    \/ \E t \in BagToSet(tasks) : UploadReturn(t)
    \/ \E t \in BagToSet(tasks), msg \in UploadErrors : UploadFail(t, msg)
    \/ \E t \in BagToSet(tasks) : SubmitFilesReturn(t)
    \/ \E t \in BagToSet(tasks), msg \in SubmitErrors : SubmitFilesFail(t, msg)
    \/ \E t \in BagToSet(tasks) : SubmitFallbackReturn(t)
    \/ \E t \in BagToSet(tasks), msg \in SubmitErrors : SubmitFallbackFail(t, msg)

\* A running worker: discovery from both sources and text-only pipelines.
Next == Discovery \/ Pipeline

Spec == Init /\ [][Next]_vars

\* The same worker, whose process may end and be started again at any time.
NextRestart == Next \/ Restart

SpecRestart == Init /\ [][NextRestart]_vars

\* A running worker whose generations may build a project.
NextBuild == Next \/ BuildPipeline

SpecBuild == Init /\ [][NextBuild]_vars

\* A worker that may be stopped and started again.
NextStop == Next \/ Stop \/ LeakedTimerFire

SpecStop == Init /\ [][NextStop]_vars

\* Every operation of the runner.
NextAll == Discovery \/ Stop \/ LeakedTimerFire \/ Pipeline \/ BuildPipeline \/ Restart

SpecAll == Init /\ [][NextAll]_vars


\* ------------------------------------------------------- the dedup store
\* A runner constructed over a store that earlier processes filled: the ids
\* HistoryBase+1 .. HistoryBase+n in the order they were recorded.
HistoryBase == 100

History(n) == [i \in 1..n |-> HistoryBase + i]

\* The ids marked: new ones, the oldest and a middle id of the history, and
\* the newest id of a full history.
\* ids never recorded before that the store is asked to mark: 1..MaxNewIds
MaxNewIds == 3

MarkIds == (1..MaxNewIds) \cup {HistoryBase + 1, HistoryBase + ProcessedCap}

InitStore == \E n \in (ProcessedCap - 1)..ProcessedCap : Constructed(History(n))

\* One call of markJobProcessed.
StoreMark(id) ==
    /\ Commit(markJobProcessed(Cur, id), "mark", id, "")
    /\ UNCHANGED Lifecycle

NextStore == \E id \in MarkIds : StoreMark(id)

SpecStore == InitStore /\ [][NextStore]_vars


\* The admission decision on every shape of candidate: the jobs offered are
\* 1..MaxCandidates (which holds a SWARM job whose budgetPerAgent is 0), one
\* per answer of listJobsV2 or per notification; a pipeline ends when its
\* accept call or its generation fails.
MaxCandidates == 5

CandidateIds == 1..MaxCandidates

NextAdmission ==
    \/ Start
    \/ TimerFire
    \/ \E id \in CandidateIds : PollReturn(<<id>>)
    \/ \E id \in CandidateIds : WsJob(id)
    \/ \E t \in BagToSet(tasks) : FetchReturn(t)
    \/ \E t \in BagToSet(tasks), msg \in AcceptErrors : AcceptFail(t, msg)
    \/ \E t \in BagToSet(tasks), msg \in GenerateErrors : GenerateFail(t, msg)

SpecAdmission == Init /\ [][NextAdmission]_vars

\* ------------------------------------------------ the project builder
BuildFrame == <<RunnerVars, gen, req, search, exec, totals>>

\* new ProjectBuilder(): a directory of its own (named here by the attempt
\* whose tool call made it) and no file.
ProjectBuilder(c, attempt) == [projectDir |-> <<c, attempt>>, files |-> {}]

\* generate(): the builder is reset, then executeGeneration awaits
\* generateText.
GenerateBuild(c) ==
    /\ builder.calls[c].pc = "idle"
    /\ builder' = [active |-> <<>>,
                   calls |-> [builder.calls EXCEPT ![c].pc = "generateText"]]
    /\ UNCHANGED <<BuildFrame, last>>

\* The create_file tool, called by the model in a step of call c: the
\* builder is made when there is none, and the file is added to it.  (The
\* model creates its files before it finalizes, as the system prompt asks.)
create_file(c, k) ==
    LET call == builder.calls[c]
        file == <<c, call.attempt, k>>
        active == IF builder.active = <<>>
                  THEN ProjectBuilder(c, call.attempt)
                  ELSE builder.active[1]
    IN /\ call.pc = "generateText"
       /\ call.finalize = <<>>
       /\ file \notin call.created
       /\ builder' = [active |-> <<[active EXCEPT !.files = @ \cup {file}]>>,
                      calls |-> [builder.calls EXCEPT ![c].created = @ \cup {file}]]
       /\ UNCHANGED <<BuildFrame, last>>

\* The finalize_project tool: throws when there is no builder, which ends
\* the generateText of the call with an error that is not retryable; else
\* answers with the outcome of createZip and the files of the builder.
finalize_project(c, success) ==
    LET call == builder.calls[c]
    IN /\ call.pc = "generateText"
       /\ call.finalize = <<>>
       /\ call.created # {}
       /\ IF builder.active = <<>>
          THEN builder' = [builder EXCEPT !.calls[c].pc = "thrown"]
          ELSE builder' = [builder EXCEPT !.calls[c].finalize =
                              <<[success |-> success, files |-> builder.active[1].files]>>]
       /\ UNCHANGED <<BuildFrame, last>>

\* The projectBuild executeGeneration attaches to its result.
projectBuild(call, active) ==
    IF call.finalize # <<>> /\ call.finalize[1].success /\ active # <<>>
    THEN <<[projectDir |-> active[1].projectDir, files |-> call.finalize[1].files]>>
    ELSE <<>>

\* generateText answers: generate() returns the result of executeGeneration.
BuildReturn(c) ==
    /\ builder.calls[c].pc = "generateText"
    /\ builder' = [builder EXCEPT !.calls[c].pc = "returned",
                                  !.calls[c].projectBuild =
                                      projectBuild(builder.calls[c], builder.active)]
    /\ UNCHANGED <<BuildFrame, last>>

\* generateText rejects: a retry after a sleep (the builder is reset before
\* it), the fallback without tools (reset as well), or the error is thrown.
BuildFail(c, retryable) ==
    LET call == builder.calls[c]
    IN /\ call.pc = "generateText"
       /\ IF retryable /\ call.attempt < BuildRetries
          THEN builder' = [active |-> <<>>,
                           calls |-> [builder.calls EXCEPT ![c].pc = "sleep"]]
          ELSE IF retryable
          THEN builder' = [active |-> <<>>,
                           calls |-> [builder.calls EXCEPT ![c].pc = "fallback",
                                                           ![c].created = {},
                                                           ![c].finalize = <<>>]]
          ELSE builder' = [builder EXCEPT !.calls[c].pc = "thrown"]
       /\ UNCHANGED <<BuildFrame, last>>

\* The sleep before a retry ends: the next attempt awaits generateText.
BuildRetry(c) ==
    /\ builder.calls[c].pc = "sleep"
    /\ builder' = [builder EXCEPT !.calls[c].pc = "generateText",
                                  !.calls[c].attempt = @ + 1,
                                  !.calls[c].created = {},
                                  !.calls[c].finalize = <<>>]
    /\ UNCHANGED <<BuildFrame, last>>

\* The generateText of the fallback, which has no tools, answers or rejects.
FallbackEnd(c, ok) ==
    /\ builder.calls[c].pc = "fallback"
    /\ builder' = [builder EXCEPT !.calls[c].pc = IF ok THEN "returned" ELSE "thrown",
                                  !.calls[c].projectBuild =
                                      projectBuild(builder.calls[c], builder.active)]
    /\ UNCHANGED <<BuildFrame, last>>

NextBuilder ==
    \/ \E c \in Calls : GenerateBuild(c)
    \/ \E c \in Calls, k \in 1..MaxFiles : create_file(c, k)
    \/ \E c \in Calls, success \in BOOLEAN : finalize_project(c, success)
    \/ \E c \in Calls : BuildReturn(c)
    \/ \E c \in Calls, retryable \in BOOLEAN : BuildFail(c, retryable)
    \/ \E c \in Calls : BuildRetry(c)
    \/ \E c \in Calls, ok \in BOOLEAN : FallbackEnd(c, ok)

SpecBuilder == Init /\ [][NextBuilder]_vars

\* The usage totals of a worker whose generations report their usage or
\* none, with the pipelines of several jobs in flight.
NextUsage ==
    \/ Start
    \/ \E id \in JobIds : WsJob(id)
    \/ \E t \in BagToSet(tasks) : FetchReturn(t)
    \/ \E t \in BagToSet(tasks) :
          \E accepted \in AcceptedBudgets(Job(t.id)) : AcceptReturn(t, accepted)
    \/ \E t \in BagToSet(tasks), usage \in Usages : GenerateReturnUsage(t, FALSE, usage)
    \/ \E t \in BagToSet(tasks) : GenerateReturn(t, FALSE)
    \/ \E t \in BagToSet(tasks), msg \in GenerateErrors : GenerateFail(t, msg)
    \/ \E t \in BagToSet(tasks) : SubmitReturn(t)

SpecUsage == Init /\ [][NextUsage]_vars

\* ================================================================ claims
TaskSet == BagToSet(tasks)

\* Pipelines of job id that are suspended at one of the awaits in pcs.
Pipelines(id, pcs) ==
    LET ts == {t \in TaskSet : t.id = id /\ t.pc \in pcs}
        RECURSIVE Sum(_)
        Sum(S) == IF S = {} THEN 0
                  ELSE LET t == CHOOSE x \in S : TRUE
                       IN CopiesIn(t, tasks) + Sum(S \ {t})
    IN Sum(ts)

\* The awaits of the processing pipeline: acceptance, generation (with the
\* upload of what it built) and submission.
ProcessingPcs == {"accept", "generate", "upload", "submitFiles", "submitFallback", "submit"}

LastEvents == Range(last.events)

Emitted(type, id) == \E e \in LastEvents : e[1] = type /\ e[2] = id

EmittedFor(id) == {e[1] : e \in {x \in LastEvents : x[2] = id}}

\* C1: however poll passes and push notifications that report the same job
\* id interleave, at most one processing pipeline (acceptance, generation,
\* submission) exists for that id, and none runs for an id whose processing
\* already ended: the job is processed at most once.
C1_AtMostOnePipeline ==
    \A id \in JobIds :
        /\ Pipelines(id, ProcessingPcs) <= 1
        /\ Pipelines(id, ProcessingPcs) = 1 => ~Has(processedJobs, id)

\* C2: the in-flight set never has more than maxConcurrentJobs members.
C2_InFlightBounded == Cardinality(processingJobs) <= maxConcurrentJobs

\* C3: no accept call, generation or submission is started for a job id
\* that is in the completed set at that moment.
C3_NoCallForCompleted ==
    [][\A t \in BagToSet(tasks') :
          (t.pc \in ProcessingPcs /\ CopiesIn(t, tasks') > CopiesIn(t, tasks))
              => ~Has(processedJobs, t.id)]_vars

\* C4: the in-flight set and the completed set are disjoint.
C4_Disjoint == processingJobs \cap Range(processedJobs) = {}


\* C5: after any markJobProcessed the completed set has at most 1000 ids;
\* marking an id already in the set changes neither size nor order; marking
\* a new id appends it and, when that exceeds the cap, evicts exactly the
\* oldest ids, in first-insertion order.
C5_CapFifo ==
    [][last'.op = "mark" =>
          LET id == last'.id
              old == processedJobs
              new == processedJobs'
              over == IF Len(old) + 1 > 1000 THEN Len(old) + 1 - 1000 ELSE 0
          IN /\ Len(new) <= 1000
             /\ Has(old, id) => new = old
             /\ ~Has(old, id) => new = SubSeq(old, over + 1, Len(old)) \o <<id>>]_vars

\* An insertion into a full set has evicted the oldest id.
C5_Witness ==
    /\ last.op = "mark"
    /\ Len(processedJobs) = 1000
    /\ processedJobs[1000] = last.id
    /\ evicted # {}

\* C6: the persisted list always equals the in-memory completed set, a newly
\* constructed runner holds exactly the persisted ids, and no pipeline is
\* started for an id that was persisted before the restart (and not evicted
\* since).
C6_StoreSurvivesRestart ==
    /\ jobStore = processedJobs
    /\ last.op = "restart" => Range(processedJobs) = bootIds
    /\ bootIds \ evicted \subseteq Range(processedJobs)
    /\ \A id \in bootIds \ evicted :
          /\ \A t \in TaskSet : t.id # id
          /\ EmittedFor(id) \subseteq {"websocket_job"}

\* A job completed before the restart is notified after it and is refused.
C6_Witness ==
    /\ last.op = "wsJob"
    /\ last.id \in bootIds
    /\ ~BudgetTooLow(Job(last.id))
    /\ Cardinality(processingJobs) < maxConcurrentJobs
    /\ \A t \in TaskSet : t.id # last.id


\* The effective budget of the claims: the per-agent budget of a shared job
\* when it has one, else the total budget.
LowBudget(id) ==
    LET job == Job(id)
        effective == IF job.jobType = "SWARM" /\ job.budgetPerAgent > 0
                     THEN job.budgetPerAgent
                     ELSE job.budget
    IN effective < minBudget

BelowCapacity == Cardinality(processingJobs) < maxConcurrentJobs

C8_AcceptBeforeGenerate ==
    \A id \in JobIds :
        (Job(id).jobType = "SWARM" /\ Emitted("job_processing", id)) =>
            /\ last.op = "acceptReturn"
            /\ last.out = "ok"
            /\ last.id = id

\* The accept call of a SWARM job returned and its generation was started.
C8_Witness ==
    /\ last.op = "acceptReturn"
    /\ Job(last.id).jobType = "SWARM"
    /\ Emitted("job_processing", last.id)
    /\ \E t \in TaskSet : t.id = last.id /\ t.pc = "generate" /\ t.v2

FullMessages == {"job_full", "All agent slots are taken"}

\* C9: when the accept call fails because all slots are taken, the job is a
\* terminal skip: its id is recorded in the completed set, the skipped
\* counter is incremented, processJob is not started, no error event is
\* emitted and the error counter is not incremented.
C9_FullIsTerminalSkip ==
    (last.op = "acceptReturn" /\ last.out \in FullMessages) =>
        /\ Has(processedJobs, last.id)
        /\ last.stats = [jobsProcessed |-> 0, jobsSkipped |-> 1, errors |-> 0]
        /\ last.events = <<>>

C9_Witness ==
    /\ last.op = "acceptReturn"
    /\ last.out = "All agent slots are taken"
    /\ Has(processedJobs, last.id)

\* C10: when the accept call answers "already accepted", the worker goes on
\* to generate a response for the job (processJob is started for it in that
\* step) and reports no error.
C10_AlreadyAcceptedProceeds ==
    (last.op = "acceptReturn" /\ last.out = "You have already accepted this job") =>
        /\ Emitted("job_processing", last.id)
        /\ \E t \in TaskSet : t.id = last.id /\ t.pc = "generate"
        /\ ~Emitted("error", last.id)
        /\ last.stats.errors = 0


\* C11: an accept call that fails for a reason other than "full" or "already
\* accepted" is an unrecoverable error of the job on both paths: the step
\* that handles it records the id in the completed set and increments the
\* error counter.
C11_AcceptErrorRecorded ==
    (last.op = "acceptReturn" /\ last.out = "Unauthorized") =>
        /\ Has(processedJobs, last.id)
        /\ last.stats.errors = 1

\* C12: after a successful accept the generation of the job is started with
\* the budgetPerAgent the acceptance returned.
C12_AcceptedBudgetUsed ==
    (last.op = "acceptReturn" /\ last.out = "ok") =>
        \A i \in 1..Len(last.llm) :
            last.llm[i][1] = last.id => last.llm[i][2] = last.accepted


\* ------------------------------------------------- claims on the LLM client
GenDone == gen.pc \in {"returned", "thrown"}

\* C14: one call of generate makes at most maxRetries + 1 calls of the
\* backend from the retry loop and at most one more, without tools, from
\* the fallback: never more than maxRetries + 2 calls; and, the backend
\* answering every call, the call of generate returns or throws.
C14_BoundedAttempts ==
    /\ [](/\ gen.calls <= gen.config.maxRetries + 1
          /\ gen.fallbackCalls <= 1
          /\ BackendCalls(gen) <= gen.config.maxRetries + 2
          /\ gen.pc = "attempt" => gen.tools = gen.hasTools
          /\ gen.pc = "fallback" => ~gen.tools)
    /\ <>GenDone

\* Every attempt of the retry loop and the fallback were made, and generate
\* has ended.
C14_Witness ==
    /\ GenDone
    /\ gen.config.maxRetries = MaxRetryAttempts
    /\ gen.calls = gen.config.maxRetries + 1
    /\ gen.fallbackCalls = 1

\* The delay before jitter of the backoff wait in progress.
CappedDelay ==
    Min(gen.config.baseDelayMs * Pow2(gen.attempt), gen.config.maxDelayMs)

\* C15: the delay getRetryDelay computes for attempt n lies within
\* [0.75, 1.25] * min(baseDelayMs * 2^n, maxDelayMs), for every jitter draw;
\* it never exceeds 1.25 * maxDelayMs.
C15_DelayWithinJitter ==
    gen.pc = "sleep" =>
        /\ 3 * CappedDelay <= 4 * gen.delay
        /\ 4 * gen.delay <= 5 * CappedDelay
        /\ 4 * gen.delay <= 5 * gen.config.maxDelayMs

\* A backoff wait whose exponential delay was cut to maxDelayMs and moved
\* by the jitter.
C15_Witness ==
    /\ gen.pc = "sleep"
    /\ gen.attempt > 0
    /\ gen.config.baseDelayMs * Pow2(gen.attempt) > gen.config.maxDelayMs
    /\ gen.delay # CappedDelay

\* The errors of LLMErrors that are retryable: by name, by message, by cause.
RetryableShapes == {JsonParseError, ToolArgumentsMessage, WrappedParseError,
                    SubclassParseError, JsonMessageError, DeepParseError}

ShapeOf(e) == [type |-> e.type, name |-> e.name, message |-> e.message,
               cause |-> e.cause]

\* The last call of the retry loop was made and it failed.
LastAttemptFailed ==
    /\ gen.calls = gen.config.maxRetries + 1
    /\ gen.lastError # <<>>
    /\ gen.lastError[1].at = gen.calls

\* C16: when every attempt of the retry loop failed with a retryable error,
\* the fallback is enabled and tools were in use, generate makes exactly
\* one more call, without tools and with the text-only note; it returns the
\* result of that call when it succeeds, and throws the error of the last
\* attempt of the retry loop when it fails.
C16_FallbackOnce ==
    (/\ LastAttemptFailed
     /\ ShapeOf(gen.lastError[1]) \in RetryableShapes
     /\ gen.config.fallbackNoTools
     /\ gen.hasTools) =>
        /\ gen.pc \in {"fallback", "returned", "thrown"}
        /\ gen.fallbackCalls = 1
        /\ gen.pc = "fallback" => (~gen.tools /\ gen.note)
        /\ gen.pc = "returned" => gen.outcome = <<"result", gen.calls + 1>>
        /\ gen.pc = "thrown" => gen.outcome = <<"error", gen.lastError>>

\* The fallback call failed after retries that all failed.
C16_Witness ==
    /\ LastAttemptFailed
    /\ gen.calls > 1
    /\ gen.fallbackCalls = 1
    /\ gen.pc = "thrown"
    /\ gen.outcome = <<"error", gen.lastError>>

\* C17: when an attempt fails with a non-retryable error, generate throws
\* that error in the same step: the failed call is the last call of the
\* backend, no backoff wait follows it and no fallback call is made.
C17_NonRetryableThrown ==
    (gen.lastError # <<>> /\ ShapeOf(gen.lastError[1]) \notin RetryableShapes) =>
        /\ gen.pc = "thrown"
        /\ gen.outcome = <<"error", gen.lastError>>
        /\ gen.lastError[1].at = gen.calls
        /\ gen.fallbackCalls = 0
        /\ gen.sleeps = gen.calls - 1

\* A non-retryable error that followed a retryable failure and its wait.
C17_Witness ==
    /\ gen.pc = "thrown"
    /\ gen.lastError # <<>>
    /\ ShapeOf(gen.lastError[1]) \notin RetryableShapes
    /\ gen.calls > 1
    /\ gen.config.fallbackNoTools
    /\ gen.hasTools


\* ------------------------------------------- claims on processJob's failures
SubmitOps == {"submitReturn", "submitFilesReturn", "submitFallbackReturn"}

\* The error events the latest step emitted for job id.
ErrorEvents(id) ==
    {i \in 1..Len(last.events) :
        last.events[i][1] = "error" /\ last.events[i][2] = id}

\* C18: when a project was built and uploadFile throws, the step that
\* catches it emits no event and counts no error and sends the text-only
\* submission; when that submission succeeds, the only event of the step is
\* response_submitted with hasFiles = false, the error counter is unchanged,
\* the job counts as processed and its id is recorded.
C18_UploadFallback ==
    /\ (last.op = "uploadReturn" /\ last.out \in UploadErrors) =>
          /\ last.events = <<>>
          /\ last.stats = ZeroStats
          /\ \E t \in TaskSet : /\ t.id = last.id
                                /\ t.pc = "submitFallback"
                                /\ t.uploadError = last.out
    /\ (last.op = "submitFallbackReturn" /\ last.out = "ok") =>
          /\ last.events = << <<"response_submitted", last.id, "noFiles">> >>
          /\ last.stats.errors = 0
          /\ last.stats.jobsProcessed = 1
          /\ Has(processedJobs, last.id)

\* The text-only submission sent after uploadFile threw has succeeded.
C18_Witness ==
    /\ last.op = "submitFallbackReturn"
    /\ last.out = "ok"
    /\ last.uploadError \in UploadErrors
    /\ last.stats.jobsProcessed = 1

\* C19: when a submission is rejected with "already submitted", the step
\* that handles the rejection emits no error event and counts no error,
\* and the job id has left the in-flight set and is in the completed set.
C19_AlreadySubmittedIsSuccess ==
    (last.op \in SubmitOps /\ IncludesAlreadySubmitted(last.out)) =>
        /\ ErrorEvents(last.id) = {}
        /\ last.stats.errors = 0
        /\ last.id \notin processingJobs
        /\ Has(processedJobs, last.id)

\* A discovery step: a poll pass or a notification.
DiscoveryOps == {"pollReturn", "wsJob"}

\* C20: when the generation or a submission of a job fails with an error
\* other than "already submitted", the step that handles the failure emits
\* exactly one error event for the job and increments the error counter by
\* one, and the id has left the in-flight set and is in the completed set;
\* and no later poll pass or notification starts a pipeline for an id that
\* is in the completed set.
C20_UnrecoverableIsError ==
    /\ []((/\ last.op \in SubmitOps \cup {"generateReturn"}
           /\ last.out \in (GenerateErrors \cup SubmitErrors)
           /\ ~IncludesAlreadySubmitted(last.out)) =>
              /\ Cardinality(ErrorEvents(last.id)) = 1
              /\ last.stats.errors = 1
              /\ last.id \notin processingJobs
              /\ Has(processedJobs, last.id))
    /\ [][last'.op \in DiscoveryOps =>
             \A t \in BagToSet(tasks') :
                 CopiesIn(t, tasks') > CopiesIn(t, tasks)
                     => ~Has(processedJobs, t.id)]_vars


\* ------------------------------------------------ claims on the lifecycle
\* What a step that handled a failure of an external call left in `last`.
FailureOps == {"pollReturn", "fetchReturn", "acceptReturn", "generateReturn",
               "submitReturn", "submitFilesReturn", "submitFallbackReturn",
               "uploadReturn"}

Failures == {"error"} \cup AcceptErrors \cup GenerateErrors \cup SubmitErrors
                \cup UploadErrors

\* C21: no failure stops discovery or another job.  A step that handles a
\* failed listJobsV2, getJobV2, acceptJob, generation or submission leaves
\* the runner running and the push handler bound, leaves a poll request or
\* a poll timer outstanding (after a failed listJobsV2: the timer of the
\* next poll), and leaves every suspended pipeline but the failed one where
\* it was.
C21_FailureIsLocal ==
    [][(last'.op \in FailureOps /\ last'.out \in Failures) =>
          /\ running' = running
          /\ pusher' = pusher
          /\ running' => PollChains' >= 1
          /\ (last'.op = "pollReturn" /\ running) => pollTimer' = "pending"
          /\ \A t \in BagToSet(tasks) :
                CopiesIn(t, tasks') >=
                    CopiesIn(t, tasks) - (IF t.id = last'.id THEN 1 ELSE 0)]_vars

\* A generation has failed while the pipeline of another job is suspended,
\* and the worker is still running with its next poll outstanding.
C21_Witness ==
    /\ last.op = "generateReturn"
    /\ last.out \in GenerateErrors
    /\ \E t \in TaskSet : t.id # last.id
    /\ running
    /\ pusher
    /\ PollChains >= 1

\* Pcs at which a pipeline awaits the first call made for a job.
AdmissionPcs == {"fetch", "accept", "generate"}

\* C22: once stop() has returned, and until the worker is started again,
\* no job is admitted: no step adds an id to the in-flight set or starts a
\* fetch, an accept call or a generation for a job that is not in flight,
\* also when a poll request or a job-detail fetch was outstanding at the
\* stop; and no poll is scheduled.
C22_StopHaltsDiscovery ==
    [][(~running /\ ~running') =>
          /\ processingJobs' \subseteq processingJobs
          /\ \A t \in BagToSet(tasks') :
                (t.pc \in AdmissionPcs /\ CopiesIn(t, tasks') > CopiesIn(t, tasks))
                    => t.id \in processingJobs
          /\ pollTimer' # "pending"]_vars

\* The guards of the steps that handle the answer, or the failure, of the
\* call a pipeline of processJob awaits (GenerateReturn, GenerateFail,
\* SubmitReturn, SubmitFail).
AnswerCanBeHandled(t) ==
    /\ t.pc = "generate" =>
          /\ Bounded(generated(Resume(Cur, t), t, FALSE))
          /\ \A msg \in GenerateErrors : Bounded(failed(Resume(Cur, t), t, msg))
    /\ t.pc = "submit" =>
          /\ Bounded(submitted(Resume(Cur, t), t, FALSE))
          /\ \A msg \in SubmitErrors : Bounded(failed(Resume(Cur, t), t, msg))

C24_NotOkRejects ==
    (req.pc \in {"resolved", "rejected"} /\ req.status # 0 /\ ~ResponseOk(req.status)) =>
        /\ req.pc = "rejected"
        /\ req.outcome = IF req.body.message # ""
                         THEN <<req.body.message>>
                         ELSE <<"API request failed: ", req.status>>

\* C25: webSearch never rejects; with a Tavily key Tavily is requested
\* first and DuckDuckGo after any failure of it, without a key DuckDuckGo
\* alone; and what the DuckDuckGo path returns has at least one entry: only
\* "Search unavailable" when the request failed, only "No instant results
\* available" when the response held no result.
C25_SearchNeverRejects ==
    /\ search.pc # "rejected"
    /\ (search.pc # "idle" /\ search.key # "") => search.calls[1] = "tavily"
    /\ (search.pc # "idle" /\ search.key = "") => search.calls = <<"duckduckgo">>
    /\ (search.pc = "returned" /\ Has(search.calls, "duckduckgo")) =>
          /\ Len(search.results) >= 1
          /\ search.ddgFailed => search.results = <<"Search unavailable">>
          /\ search.ddgEmpty => search.results = <<"No instant results available">>


\* ------------------------------------------------ claims on the admission
\* C26: the admission check and the insertion into the in-flight set are
\* one atomic step: whenever a pipeline of an admitted job is outstanding
\* (also while its getJobV2 or its acceptJob call is), the id of the job is
\* in the in-flight set.
C26_AdmitInsertsAtomically ==
    \A t \in TaskSet : t.id \in processingJobs

\* The operations that resume a pipeline on the answer of its external call.
PipelineOps == {"fetchReturn", "acceptReturn", "generateReturn", "uploadReturn",
                "submitReturn", "submitFilesReturn", "submitFallbackReturn"}

\* C27: no admitted job is left outside both sets.  When the last pipeline
\* of a job has ended (the step handled the answer or the failure of one of
\* its external calls and left no call of the job outstanding), the id is
\* in the completed set and not in the in-flight set.
C27_AdmittedEndsCompleted ==
    (last.op \in PipelineOps /\ ~\E t \in TaskSet : t.id = last.id) =>
        /\ Has(processedJobs, last.id)
        /\ last.id \notin processingJobs

\* The effective budget as C28 states it: the per-agent budget of a shared
\* job whenever it has one, 0 included, and the total budget otherwise.
StatedBudget(job) ==
    IF job.jobType = "SWARM" /\ job.budgetPerAgent # Null
    THEN job.budgetPerAgent
    ELSE job.budget

\* The decision C28 states for candidate id on the registry of this state.
Decision(id) ==
    IF id \in processingJobs \/ Has(processedJobs, id) THEN "already-seen"
    ELSE IF Cardinality(processingJobs) >= maxConcurrentJobs THEN "at-capacity"
    ELSE IF StatedBudget(Job(id)) < minBudget THEN "budget-too-low"
    ELSE "admit"

\* What a discovery step did with the one candidate id it was given: it
\* started a pipeline for it, it recorded it as a skip, or it refused it
\* and left the registry as it was.
Decided(id) ==
    IF /\ BagCardinality(tasks') = BagCardinality(tasks) + 1
       /\ \E t \in BagToSet(tasks') : t.id = id /\ CopiesIn(t, tasks') > CopiesIn(t, tasks)
    THEN {"admit"}
    ELSE IF /\ tasks' = tasks
            /\ last'.stats.jobsSkipped = 1
            /\ Has(processedJobs', id)
            /\ processingJobs' = processingJobs
    THEN {"budget-too-low"}
    ELSE IF /\ tasks' = tasks
            /\ processedJobs' = processedJobs
            /\ processingJobs' = processingJobs
            /\ last'.stats = ZeroStats
    THEN {"already-seen", "at-capacity"}
    ELSE {}

\* C28: the admission decision is the stated function of the candidate and
\* the registry (already-seen, then at-capacity, then budget-too-low on the
\* effective budget, a per-agent budget of 0 counting as present, then
\* admit), on the poll path and on the push path alike.
C28_DecisionFunction ==
    [][/\ (last'.op = "wsJob") => Decision(last'.id) \in Decided(last'.id)
       /\ (last'.op = "pollReturn" /\ Len(last'.jobs) = 1) =>
             Decision(last'.jobs[1]) \in Decided(last'.jobs[1])]_vars

\* The registry, the store and the pipelines are what they were, and the
\* step incremented no counter.
NothingChanged ==
    /\ processingJobs' = processingJobs
    /\ processedJobs' = processedJobs
    /\ jobStore' = jobStore
    /\ tasks' = tasks
    /\ last'.stats = ZeroStats

Unseen(id) == id \notin processingJobs /\ ~Has(processedJobs, id)

\* The step started a pipeline for job id.
Admitted(id) ==
    \E t \in BagToSet(tasks') : t.id = id /\ CopiesIn(t, tasks') > CopiesIn(t, tasks)

\* C29: a capacity skip changes nothing.  A notification or a poll answer
\* handled while the in-flight set is at its maximum leaves the in-flight
\* set, the completed set, the store and the counters as they were; a poll
\* pass that reaches the maximum half way records none of the jobs it
\* leaves (a skip is counted only for a job it recorded, and it records no
\* job of sufficient budget); and the job, unseen as it still is, is
\* admitted by a later notification, or poll answer that reaches it, once
\* the in-flight set is below the maximum.
C29_CapacitySkipChangesNothing ==
    [][/\ (last'.op = "wsJob" /\ Unseen(last'.id) /\ ~BelowCapacity) => NothingChanged
       /\ (last'.op = "pollReturn" /\ last'.out = "ok" /\ ~BelowCapacity) => NothingChanged
       /\ (last'.op = "pollReturn" /\ last'.out = "ok") =>
             /\ last'.stats.errors = 0
             /\ last'.stats.jobsSkipped =
                   Cardinality({id \in Range(last'.jobs) :
                                   Has(processedJobs', id) /\ ~Has(processedJobs, id)})
             /\ jobStore' = processedJobs'
             /\ \A id \in Range(last'.jobs) :
                   (Unseen(id) /\ ~LowBudget(id)) => ~Has(processedJobs', id)
       /\ (last'.op = "wsJob" /\ Unseen(last'.id) /\ BelowCapacity /\ ~LowBudget(last'.id)) =>
             Admitted(last'.id)
       /\ (last'.op = "pollReturn" /\ last'.out = "ok" /\ BelowCapacity) =>
             \A i \in 1..Len(last'.jobs) :
                (/\ \A j \in 1..(i - 1) : ~Unseen(last'.jobs[j])
                 /\ Unseen(last'.jobs[i])
                 /\ ~LowBudget(last'.jobs[i])) => Admitted(last'.jobs[i])]_vars

\* A notification of an unseen job has just been refused at capacity.
C29_Witness ==
    /\ last.op = "wsJob"
    /\ Unseen(last.id)
    /\ ~LowBudget(last.id)
    /\ ~BelowCapacity
    /\ ~\E t \in TaskSet : t.id = last.id

\* The step emitted no error event and counted no error.
NoErrorReported ==
    /\ \A i \in 1..Len(last'.events) : last'.events[i][1] # "error"
    /\ last'.stats.errors = 0

SkippedEventFor(id) ==
    \E i \in 1..Len(last'.events) :
        last'.events[i][1] = "job_skipped" /\ last'.events[i][2] = id

\* C30: a capacity skip and a budget skip, on the poll path and on the push
\* path, emit a job_skipped event for the job and report no error: the
\* notification of an unseen job that is refused at capacity or for its
\* budget, and the first unseen job of a poll answer refused for either.
C30_SkipsAreEvents ==
    [][/\ (last'.op = "wsJob" /\ Unseen(last'.id) /\ (~BelowCapacity \/ LowBudget(last'.id))) =>
             (SkippedEventFor(last'.id) /\ NoErrorReported)
       /\ (last'.op = "pollReturn" /\ last'.out = "ok") =>
             \A i \in 1..Len(last'.jobs) :
                (/\ \A j \in 1..(i - 1) : ~Unseen(last'.jobs[j])
                 /\ Unseen(last'.jobs[i])
                 /\ (~BelowCapacity \/ LowBudget(last'.jobs[i]))) =>
                    (SkippedEventFor(last'.jobs[i]) /\ NoErrorReported)]_vars


\* ------------------------------------------- claims on generation, again
\* The nominal delay of the wait before retry i, as the claims state it.
NominalDelay(i) ==
    LET doubled == gen.config.baseDelayMs * Pow2(i)
    IN IF doubled <= gen.config.maxDelayMs THEN doubled ELSE gen.config.maxDelayMs

\* C31: when the first k attempts fail with a retryable error and attempt
\* k+1 succeeds, generate has made exactly k+1 calls of the backend and k
\* waits, returns the result of call k+1 and makes no fallback call; the
\* wait before retry i is the nominal delay min(baseDelayMs * 2^i,
\* maxDelayMs) moved by the jitter (at most an eighth, and the rounding):
\* 1000, 2000, 4000 ms for base 1000 and max 10000.
C31_RetriesThenSuccess ==
    /\ [](gen.pc = "sleep" =>
            /\ gen.sleeps = gen.attempt + 1
            /\ gen.calls = gen.attempt + 1
            /\ ShapeOf(gen.lastError[1]) \in RetryableShapes
            /\ 7 * NominalDelay(gen.attempt) <= 8 * gen.delay + 4
            /\ 8 * gen.delay - 4 <= 9 * NominalDelay(gen.attempt)
            /\ (gen.config.baseDelayMs = 1000 /\ gen.config.maxDelayMs = 10000) =>
                  NominalDelay(gen.attempt) = <<1000, 2000, 4000, 8000>>[gen.attempt + 1])
    /\ [][(gen.pc = "attempt" /\ gen'.pc = "returned") =>
             /\ gen'.calls = gen.sleeps + 1
             /\ gen'.sleeps = gen.sleeps
             /\ gen.sleeps <= gen.config.maxRetries
             /\ gen'.fallbackCalls = 0
             /\ gen'.outcome = <<"result", gen.sleeps + 1>>]_vars

\* Three attempts failed, three waits of about 1000, 2000 and 4000 ms were
\* made, and the fourth attempt succeeded.
C31_Witness ==
    /\ gen.pc = "returned"
    /\ gen.config.baseDelayMs = 1000
    /\ gen.config.maxDelayMs = 10000
    /\ gen.sleeps = 3
    /\ gen.calls = 4
    /\ gen.fallbackCalls = 0
    /\ gen.delay >= 3500
    /\ gen.delay <= 4500
    /\ gen.outcome = <<"result", 4>>

\* The value and the values reachable from it through the cause property.
RECURSIVE CauseChain(_)
CauseChain(error) ==
    {error} \cup (IF error.cause = <<>> THEN {} ELSE CauseChain(error.cause[1]))

\* An error of the chain has a listed name in its name or one of the two
\* phrases in its message.
StatedRetryable(error) ==
    \E e \in CauseChain(error) :
        /\ e.type = "object"
        /\ \/ \E listed \in RETRYABLE_ERROR_PATTERNS : includes(e.name, listed)
           \/ includes(e.message, <<"JSON parsing failed">>)
           \/ includes(e.message, <<"Invalid arguments for tool">>)

\* C32: isRetryableError is true exactly when the error, or an error
\* reachable from it through the causes, has a listed name in its name or
\* one of the two phrases in its message, and false for a value that is no
\* object.  What generate does with a failed attempt shows the answer: with
\* a retry left it waits exactly when the error is retryable, and with none
\* left, tools in use and the fallback enabled, it calls the fallback
\* exactly when the error is retryable.
C32_RetryableExactly ==
    [][(gen.pc = "attempt" /\ gen'.pc # "returned") =>
          LET error == gen'.lastError[1]
          IN /\ gen'.lastError # <<>>
             /\ error.at = gen.calls
             /\ error.type # "object" => gen'.pc = "thrown"
             /\ gen.attempt < gen.config.maxRetries =>
                   (gen'.pc = "sleep" <=> StatedRetryable(error))
             /\ (/\ gen.attempt >= gen.config.maxRetries
                 /\ gen.hasTools
                 /\ gen.config.fallbackNoTools) =>
                   (gen'.pc = "fallback" <=> StatedRetryable(error))]_vars

\* An attempt failed with an error that is retryable only by the cause of
\* its cause, and generate waits before the retry.
C32_Witness ==
    /\ gen.pc = "sleep"
    /\ ShapeOf(gen.lastError[1]) = DeepParseError

\* C33: when the backend ends with an empty final text, the text of the
\* LLMResponse is the text of the last step that has some, and it is empty
\* only when no step has any text.
C33_TextBackfilled ==
    (exec.pc = "returned" /\ exec.result[1].text = "") =>
        LET steps == exec.result[1].steps
            withText == {i \in 1..Len(steps) : steps[i].text # ""}
        IN /\ withText # {} =>
                 exec.text = steps[CHOOSE i \in withText : \A j \in withText : j <= i].text
           /\ exec.text = "" <=> withText = {}

\* The backend ended without a final text after two steps with different
\* texts: the text returned is that of the later one.
C33_Witness ==
    /\ exec.pc = "returned"
    /\ Len(exec.result[1].steps) = 3
    /\ exec.result[1].text = ""
    /\ exec.result[1].steps[1].text = "Searching."
    /\ exec.result[1].steps[2].text = "Here is the page."
    /\ exec.text = "Here is the page."


\* ------------------------------------------------ claims on the submission
SubmitPcs == {"submit", "submitFiles", "submitFallback"}

C38_FallbackOnlyAfterUploadFailure ==
    [][\A u \in BagToSet(tasks') :
          (u.pc = "submitFallback" /\ CopiesIn(u, tasks') > CopiesIn(u, tasks)) =>
              last'.op = "uploadReturn"]_vars

\* C39: the step that ends the pipeline of a job whose generation produced
\* a project build has called cleanupProject exactly once, whether the
\* submission with files succeeded or the text-only fallback succeeded or
\* failed.  (No earlier step of the pipeline calls it.)
C39_CleanupOnEveryPath ==
    /\ (last.op \in {"submitFilesReturn", "submitFallbackReturn"}
           /\ ~\E t \in TaskSet : t.id = last.id) => last.cleanups = 1
    /\ last.op \notin {"submitFilesReturn", "submitFallbackReturn"} => last.cleanups = 0

\* ------------------------------------------------ claims on the poll loop
\* C37: whatever start() and stop() calls were made, at most one poll
\* request or poll timer is pending (a timer counts whether or not pollTimer
\* still holds its handle), and start() on a running worker changes nothing.
C37_AtMostOnePollChain ==
    /\ [](PollChains <= 1)
    /\ [][(running /\ last'.op = "start") =>
              /\ last'.out = "already running"
              /\ UNCHANGED <<running, pollTimer, leakedTimers, pollReqs, pusher,
                             processingJobs, processedJobs, jobStore, tasks>>]_vars

\* ------------------------------------------------ claims on the push path
\* Exactly one error was counted by the step and nothing else.
OnlyErrorCounted == last'.stats = [ZeroStats EXCEPT !.errors = 1]

\* C40: the step that handles a failed fetch of the details of a notified
\* job leaves the in-flight set, the completed set and the store as they
\* were and counts one error and nothing else; a job that was unseen is
\* still unseen after it, and an unseen job of sufficient budget is admitted
\* by the next notification, or poll answer that reaches it, handled below
\* capacity.
C40_FailedFetchKeepsEligible ==
    [][/\ (last'.op = "fetchReturn" /\ last'.out = "error") =>
             /\ processingJobs' = processingJobs
             /\ processedJobs' = processedJobs
             /\ jobStore' = jobStore
             /\ OnlyErrorCounted
             /\ \A id \in JobIds : Unseen(id) => (id \notin processingJobs' /\ ~Has(processedJobs', id))
             /\ \A u \in BagToSet(tasks') : CopiesIn(u, tasks') <= CopiesIn(u, tasks)
       /\ (last.op = "fetchReturn" /\ last.out = "error" /\ Unseen(last.id)
              /\ BelowCapacity /\ ~LowBudget(last.id)) =>
             /\ (last'.op = "wsJob" /\ last'.id = last.id) => Admitted(last.id)
             /\ (last'.op = "pollReturn" /\ last'.out = "ok" /\ Len(last'.jobs) > 0
                    /\ last'.jobs[1] = last.id) => Admitted(last.id)]_vars

\* The fetch for a notified job has just failed; the job is unseen and there
\* is room for it.
C40_Witness ==
    /\ last.op = "fetchReturn"
    /\ last.out = "error"
    /\ Unseen(last.id)
    /\ ~LowBudget(last.id)
    /\ BelowCapacity
    /\ pusher

\* ------------------------------------------------ claims on the usage totals
\* The totals after the usage u of one more generation was added.
WithUsage(u) ==
    [promptTokens |-> totals.promptTokens + u.promptTokens,
     completionTokens |-> totals.completionTokens + u.completionTokens,
     totalTokens |-> totals.totalTokens + u.totalTokens,
     cost |-> totals.cost + u.estimatedCost]

\* C35: no step decreases one of the cumulative usage totals, and the
\* totals are the sum of the usage of the generations that succeeded so
\* far, whatever the interleaving of the pipelines: they start at zero, the
\* step in which a generation succeeded with a usage adds exactly that usage
\* to the totals as they are when it is taken, and no other step changes
\* them.
C35_TotalsAreTheSum ==
    [][/\ totals'.promptTokens >= totals.promptTokens
       /\ totals'.completionTokens >= totals.completionTokens
       /\ totals'.totalTokens >= totals.totalTokens
       /\ totals'.cost >= totals.cost
       /\ IF last'.op = "generateReturn" /\ last'.usage # <<>>
          THEN totals' = WithUsage(last'.usage[1])
          ELSE totals' = totals]_vars

\* A generation has just reported its usage after another one did, while
\* the generation of another job is still awaited.
C35_Witness ==
    /\ last.op = "generateReturn"
    /\ last.usage # <<>>
    /\ last.usage[1].totalTokens > 0
    /\ totals.totalTokens > last.usage[1].totalTokens
    /\ \E t \in TaskSet : t.pc = "generate" /\ t.id # last.id

\* ------------------------------------------------ claims on the build context
\* C36: the project build attached to the result of a generate call holds
\* exactly the files created by the tool calls of the attempt that produced
\* the result, in a directory made by that attempt: no file of an earlier
\* attempt of the call and no file of another call; and the reset at the
\* start of a call leaves the files of every other call that is awaiting its
\* generateText in the builder.
C36_BuildContextIsPerGeneration ==
    /\ [](\A c \in Calls :
             LET call == builder.calls[c]
             IN (call.pc = "returned" /\ call.projectBuild # <<>>) =>
                   /\ call.projectBuild[1].files = call.created
                   /\ call.projectBuild[1].projectDir = <<c, call.attempt>>)
    /\ [][\A c \in Calls, d \in Calls :
             (/\ c # d
              /\ builder.calls[c].pc = "idle"
              /\ builder'.calls[c].pc = "generateText"
              /\ builder.calls[d].pc = "generateText"
              /\ builder.calls[d].created # {}) =>
                 /\ builder'.active # <<>>
                 /\ builder.calls[d].created \subseteq builder'.active[1].files]_vars

====
